---- MODULE Spec2Model ----
(***************************************************************************)
(* Bron server: the Task Orchestrator, its HTTP entry points and the       *)
(* Safety Guard, modelled as a state machine over the persisted rows       *)
(* (BronInstance, Task, ChatMessage, UIRecipe).                            *)
(*                                                                         *)
(* One action is one HTTP handler run to completion: get_db commits the    *)
(* session when the handler returns and rolls back when it raises          *)
(* (db/session.py:46-56).                                                  *)
(***************************************************************************)
EXTENDS Integers, Sequences, FiniteSets, TLC

\* ------------------------------------------------------------------------
\* Bounds of the model
\* ------------------------------------------------------------------------
MaxTasks == 1
MaxRecipes == 3
MaxMessages == 5

\* ------------------------------------------------------------------------
\* Values
\* ------------------------------------------------------------------------
\* Python None in an Optional[str] column or field
NoneVal == "None"
\* Python None in an Optional[UUID] reference to a Task
NoTask == 0
\* Optional[float] progress that is absent
NoProgress == -1
\* Python None in an Optional[UUID] reference to a ChatMessage
NoMessage == 0

\* models/task.py TaskState
TaskState == {"draft", "needs_info", "planned", "ready", "executing",
              "waiting", "done", "failed"}

\* models/bron.py BronStatus
BronStatus == {"idle", "working", "waiting", "needs_info", "ready", "completed"}

\* services/claude.py AgentIntent
AgentIntent == {"respond", "request_info", "update_task", "execute",
                "complete", "error"}

\* models/ui_recipe.py UIComponentType: the values UIComponentType(...) accepts
UIComponentType == {"form", "picker", "multi_select", "date_picker",
                    "contact_picker", "file_upload", "location_picker",
                    "info_card", "weather", "summary", "list_view", "progress",
                    "confirmation", "approval", "auth_google", "auth_apple",
                    "auth_oauth", "execute",
                    "email_preview", "email_compose", "calendar_event",
                    "message_preview", "document_preview", "link_preview"}

\* services/safety.py RiskLevel and its numeric order
RiskLevel == {"safe", "low", "medium", "high", "blocked"}

\* services/safety.py ActionCategory
ActionCategory == {"read", "create", "update", "delete", "send", "execute",
                   "auth", "financial"}

\* risk_level_value that ranks low above medium
risk_level_value_LowOverMedium(level) ==
    CASE level = "safe" -> 0
      [] level = "low" -> 2
      [] level = "medium" -> 1
      [] level = "high" -> 3
      [] level = "blocked" -> 4
      [] OTHER -> 0

risk_level_value(level) ==
    CASE level = "safe" -> 0
      [] level = "low" -> 1
      [] level = "medium" -> 2
      [] level = "high" -> 3
      [] level = "blocked" -> 4
      [] OTHER -> 0

\* ------------------------------------------------------------------------
\* Message texts.  A text is represented by the facts the guard's regular
\* expressions and keyword tables can observe about it.
\* ------------------------------------------------------------------------
\* Texts the model may answer with: one without any keyword, one with HIGH
\* keywords ("I'll delete your draft and send email ..."), one matching the
\* BLOCKED_ACTIONS pattern delete\s+(all|every|entire).
ModelTexts == {"plain", "delete_send", "delete_all"}

\* a text with a 16-digit number in it ("Your card 4111111111111111 is
\* saved"), and what re.sub(pattern, "[REDACTED]", ...) makes of it
CardText == "card_number"
RedactedText == "card_redacted"

\* The text the orchestrator stores when process_message failed in its try
\* block: "I encountered an issue processing your request." (claude.py:896)
ApiFailureText == "api_failure"

\* What the patterns of safety.py find in a text
TextFacts(text) ==
    CASE text = "delete_all" ->
            [blocked_pattern |-> TRUE, sensitive |-> FALSE,
             high |-> TRUE, medium |-> FALSE, low |-> FALSE]
      [] text = "delete_send" ->
            [blocked_pattern |-> FALSE, sensitive |-> FALSE,
             high |-> TRUE, medium |-> FALSE, low |-> TRUE]
      [] text = CardText ->
            [blocked_pattern |-> FALSE, sensitive |-> TRUE,
             high |-> FALSE, medium |-> FALSE, low |-> TRUE]
      [] OTHER ->
            [blocked_pattern |-> FALSE, sensitive |-> FALSE,
             high |-> FALSE, medium |-> FALSE, low |-> FALSE]

\* every combination of findings a message can give
AllTextFacts ==
    [blocked_pattern : BOOLEAN, sensitive : BOOLEAN,
     high : BOOLEAN, medium : BOOLEAN, low : BOOLEAN]

\* an analysis that looks at the keyword tables before the blocked patterns
risk_of_KeywordsFirst(f) ==
    IF f.high THEN "high"
    ELSE IF f.medium THEN "medium"
    ELSE IF f.low THEN "low"
    ELSE IF f.blocked_pattern \/ f.sensitive THEN "blocked"
    ELSE "safe"

\* SafetyGuard.analyze_message, lines 104-126, on the findings: blocked
\* patterns first, then sensitive data, then the highest keyword level that
\* matches
risk_of(f) ==
    LET afterHigh == IF f.high /\ risk_level_value("high") > risk_level_value("safe")
                     THEN "high" ELSE "safe"
        afterMedium == IF f.medium /\ risk_level_value("medium") > risk_level_value(afterHigh)
                       THEN "medium" ELSE afterHigh
        afterLow == IF f.low /\ risk_level_value("low") > risk_level_value(afterMedium)
                    THEN "low" ELSE afterMedium
    IN  IF f.blocked_pattern THEN "blocked"
        ELSE IF f.sensitive THEN "blocked"
        ELSE afterLow

\* SafetyGuard.analyze_message
analyze_message(text) == risk_of(TextFacts(text))

\* requires_confirmation that asks for no confirmation at medium risk
requires_confirmation_MediumNever(risk_level, action_category) ==
    IF risk_level = "blocked" THEN TRUE
    ELSE IF risk_level = "high" THEN TRUE
    ELSE IF risk_level = "medium" THEN FALSE
    ELSE action_category \in {"delete", "financial"}

\* SafetyGuard.requires_confirmation, lines 173-193
requires_confirmation(risk_level, action_category) ==
    IF risk_level = "blocked" THEN TRUE
    ELSE IF risk_level = "high" THEN TRUE
    ELSE IF risk_level = "medium"
    THEN action_category \in {"delete", "send", "financial", "execute"}
    ELSE IF action_category \in {"delete", "financial"} THEN TRUE
    ELSE FALSE

\* SafetyGuard.get_confirmation_type, lines 210-216
get_confirmation_type(risk_level, action_category) ==
    IF risk_level = "blocked" THEN "error"
    ELSE IF risk_level = "high" \/ action_category = "financial" THEN "approval"
    ELSE "confirmation"

\* SafetyGuard.sanitize_output, lines 228-233: every match of a sensitive
\* pattern becomes "[REDACTED]"
sanitize_output(text) ==
    IF TextFacts(text).sensitive THEN RedactedText ELSE text

\* ------------------------------------------------------------------------
\* The reply of the LLM Session Manager
\* ------------------------------------------------------------------------
\* UIRecipeSpec (component_type, title); the other fields do not influence
\* the orchestrator's control flow
NoRecipe == [component_type |-> NoneVal, title |-> NoneVal]

\* the specs the model asks for here: a plain input component with and
\* without title, and "option_buttons", which
\* the tool schema offers (claude.py:302) but UIComponentType does not contain
UIRecipeSpecs == { [component_type |-> "form", title |-> "Trip details"],
                   [component_type |-> "form", title |-> NoneVal],
                   [component_type |-> "option_buttons", title |-> "Trip details"] }

\* TaskStateUpdate; claude.py never builds one, so every reply of
\* process_message carries task_update = None
NoUpdate == [new_state |-> NoneVal, progress |-> NoProgress,
             next_action |-> NoneVal, waiting_on |-> NoneVal, present |-> FALSE]

\* intents _parse_agent_response derives from a text without recipe
ParsedIntents == {"complete", "execute", "error", "request_info", "respond"}

NoResponse == [intent |-> NoneVal, message |-> NoneVal, ui_recipe |-> NoRecipe,
               task_update |-> NoUpdate]

\* the texts a reply of each intent carries here; only execute replies are
\* given texts with risk keywords, and a plain answer may quote a card number
TextsOf(intent) ==
    IF intent = "execute" THEN ModelTexts
    ELSE IF intent = "respond" THEN {"plain", CardText}
    ELSE {"plain"}

\* Outcomes of claude_service.process_message:
\*   raised : an exception escapes (anything thrown before the try block of
\*            _process_with_direct_api, claude.py:722-729)
\*   failed : the model call failed inside the try block and was converted
\*            to the fixed ERROR reply (claude.py:892-897)
ProcessMessageOutcomes ==
    \* a tool call produced a UIRecipeSpec: intent is REQUEST_INFO
    { [raised |-> FALSE, failed |-> FALSE,
       response |-> [intent |-> "request_info", message |-> "plain",
                     ui_recipe |-> s, task_update |-> NoUpdate]]
        : s \in UIRecipeSpecs }
    \cup
    \* text only: intent from the keyword heuristics
    UNION { { [raised |-> FALSE, failed |-> FALSE,
               response |-> [intent |-> i, message |-> m,
                             ui_recipe |-> NoRecipe, task_update |-> NoUpdate]]
                : m \in TextsOf(i) } : i \in ParsedIntents }
    \cup
    { [raised |-> FALSE, failed |-> TRUE,
       response |-> [intent |-> "error", message |-> ApiFailureText,
                     ui_recipe |-> NoRecipe, task_update |-> NoUpdate]] }
    \cup
    { [raised |-> TRUE, failed |-> TRUE, response |-> NoResponse] }

\* ------------------------------------------------------------------------
\* State
\* ------------------------------------------------------------------------
VARIABLES
    bron,       \* the BronInstance row: status, current_task_id
    tasks,      \* Task rows, a task's id is its index
    messages,   \* ChatMessage rows in creation order, id = index
    recipes,    \* UIRecipe rows in creation order, id = index
    turn,       \* the request handled last and how it ended
    creds,      \* Credential rows of one (bron_id, provider) pair, id = index
    cred_order, \* the ids of creds, least recently updated first
    calls,      \* the APIExecutor.execute invocations
    sessions,   \* BronSessionManager._sessions: bron_id -> client
    clients,    \* the ClaudeSDKClient objects, named by the request that made them
    reqs,       \* the process_message calls on the session path
    fb,         \* the _process_with_direct_api call and its retry loop
    sg,         \* the last SafetyGuard call: its arguments and its result
    subs,       \* the submit_ui_recipe requests that run side by side
    pr,         \* the last model reply interpreted and the AgentResponse made of it
    hist        \* ChatMessage rows with their created_at and the last context built

\* the rows the orchestrator works on
orchVars == <<bron, tasks, messages, recipes, turn>>
\* the state of the services the chat handlers do not write
execVars == <<creds, cred_order, calls>>
sessVars == <<sessions, clients, reqs>>
localVars == <<fb, sg>>
auxVars == <<subs, pr, hist>>
serviceVars == <<execVars, sessVars, localVars, auxVars>>

vars == <<bron, tasks, messages, recipes, turn, creds, cred_order, calls,
          sessions, clients, reqs, fb, sg, subs, pr, hist>>

\* dict submitted by the user: a function from field names to values
NoData == [none |-> 0]
\* the dicts a user submits: the n-th accepted submission fills one field
\* with a value no earlier submission used
Submissions(n) == { [a |-> n], [b |-> n] }

NoOutcome == [raised |-> FALSE, failed |-> FALSE, response |-> NoResponse]

\* turn.op     : the operation that ran
\* turn.result : "ok", or how the handler ended otherwise
\* turn.outcome: what process_message returned in it
\* turn.task   : the Task the operation worked on
\* turn.recipe : the UIRecipe a submission named
\* turn.merged : all_submitted_data handed to the model by a submission
NoTurn == [op |-> "none", result |-> "none", outcome |-> NoOutcome,
           task |-> NoTask, recipe |-> NoTask, merged |-> NoData]

\* ------------------------------------------------------------------------
\* External API Executor: bounds and values
\* ------------------------------------------------------------------------
MaxCreds == 2
MaxCalls == 2

CallIds == 1..MaxCalls

\* no Credential chosen (Optional[Credential] = None)
NoCred == 0

\* what the provider and the transport can answer to one request: a 2xx
\* status, the statuses execute tells apart, another error status, and the
\* httpx.RequestError family (timeout, connection failure)
HttpOutcomes == {"200", "401", "429", "500", "timeout"}

\* an execute invocation.  pc: "idle" not called yet, "build" the credential
\* is chosen and the request is being built, "sent" the request is on the
\* wire, "done" execute returned or raised.
\*   cred         : the Credential _get_credential returned
\*   result       : "ok" or the exception execute raised
\*   status       : the provider's answer
\*   requests     : HTTP requests issued by the invocation
\*   sent_invalid : the credential was marked invalid when a request using it
\*                  was issued
\*   had_valid    : a valid credential existed when _get_credential ran
\*   rejected_before : the credentials a 401 had invalidated when the
\*                  invocation started
\*   latest_valid : the most recently updated valid row when _get_credential
\*                  ran
\*   status_code, response_body : what a raised APIResponseError carries
NoCall == [pc |-> "idle", cred |-> NoCred, result |-> NoneVal, status |-> NoneVal,
           requests |-> 0, sent_invalid |-> FALSE, had_valid |-> FALSE,
           rejected_before |-> {}, latest_valid |-> NoCred,
           status_code |-> NoneVal, response_body |-> NoneVal]

ExecInit ==
    /\ creds = <<>>
    /\ cred_order = <<>>
    /\ calls = [c \in CallIds |-> NoCall]

\* ------------------------------------------------------------------------
\* LLM Session Manager: bounds and values
\* ------------------------------------------------------------------------
MaxReqs == 2

ReqIds == 1..MaxReqs

\* the Brons that send requests
Agents == {"bron_a", "bron_b"}

\* no entry in _sessions / no client
NoSession == 0

\* a process_message call.  pc: "idle" not called yet; "disconnecting"
\* get_or_create_session awaits disconnect() of the entry it found;
\* "connecting" it awaits connect() of its new client; "query" the query runs
\* under wait_for; "closing" close_session awaits disconnect(); "fallback"
\* _process_with_direct_api runs; "done" process_message returned or raised.
\*   target    : the client whose disconnect() is awaited
\*   timed_out : wait_for raised TimeoutError in this call
\*   result    : what the caller got
NoReq == [pc |-> "idle", agent |-> NoneVal, target |-> NoSession,
          timed_out |-> FALSE, result |-> NoneVal]

SessionInit ==
    /\ sessions = [a \in Agents |-> NoSession]
    /\ clients = [r \in ReqIds |-> "none"]
    /\ reqs = [r \in ReqIds |-> NoReq]

\* ------------------------------------------------------------------------
\* Stateless fallback and SafetyGuard calls: bounds and values
\* ------------------------------------------------------------------------
MaxFallbackTurns == 2

\* claude.py:760
max_retries == 3

\* what client.messages.create does: it answers, or raises an error of the
\* provider's status class, or a transport error
ApiOutcomes == {"ok", "400", "401", "429", "500", "502", "503", "529", "timeout"}

\* the _process_with_direct_api call.  pc: "idle", "call" (about to call the
\* model), "sleep" (in asyncio.sleep), "done".
\*   attempt     : the loop variable
\*   retry_delay : seconds the next sleep takes
\*   calls       : model calls made in this turn
\*   waits       : the sleeps of this turn, in seconds
\*   errors      : the failures of this turn, in order
NoFallback == [pc |-> "idle", turn_no |-> 0, attempt |-> 0, retry_delay |-> 1,
               calls |-> 0, waits |-> <<>>, errors |-> <<>>, result |-> NoneVal]

FallbackInit == fb = NoFallback

NoFacts == [blocked_pattern |-> FALSE, sensitive |-> FALSE,
            high |-> FALSE, medium |-> FALSE, low |-> FALSE]

\* a SafetyGuard call: the method, its arguments, what it returned
NoGuardCall == [op |-> "none", risk |-> NoneVal, category |-> NoneVal,
                facts |-> NoFacts, text |-> NoneVal, result |-> NoneVal]

GuardInit == sg = NoGuardCall

\* ------------------------------------------------------------------------
\* Overlapping submissions: bounds and values
\* ------------------------------------------------------------------------
MaxSubs == 2

SubIds == 1..MaxSubs

\* a submit_ui_recipe request with its own database session.  pc: "idle" not
\* received yet; "checked" the endpoint read the recipe and found it
\* unsubmitted; "model" the orchestrator flushed its UPDATE of the row and
\* awaits process_message; "done" answered.
\*   recipe      : the UIRecipe the request names
\*   data        : the dict it submits
\*   model_calls : process_message calls the request made
\*   result      : "ok", "rejected" (HTTP 400) or "db_locked"
NoSub == [pc |-> "idle", recipe |-> NoTask, data |-> NoData,
          model_calls |-> 0, result |-> NoneVal]

RaceInit == subs = [s \in SubIds |-> NoSub]

\* ------------------------------------------------------------------------
\* Interpretation of model replies: bounds and values
\* ------------------------------------------------------------------------
\* tool_use blocks in one reply
MaxToolCalls == 2

\* _process_with_sdk_client and _process_with_direct_api
ReplyPaths == {"sdk", "direct"}

\* no reply interpreted yet
NoParse == [op |-> "none", path |-> NoneVal, tools |-> <<>>, text |-> NoneVal,
            result |-> NoneVal]

ParseInit == pr = NoParse

\* ------------------------------------------------------------------------
\* Conversation history: bounds and values
\* ------------------------------------------------------------------------
\* turns of one Agent
MaxHistoryTurns == 3

\* _get_conversation_history(bron_id, limit=10), orchestrator.py:71, 124, 261
HistoryLimit == 10

\* the message of the current turn in a context (it has no row yet)
CurrentMessage == 0

\* clock   : the database's now(), in the unit created_at is stored in
\* rows    : the Agent's ChatMessage rows in the order they were inserted;
\*           a row's id is its index
\* context : the messages handed to the model in the last turn, by id
\* stored  : the number of rows when that turn read the history
NoHistory == [clock |-> 0, rows |-> <<>>, turns |-> 0, context |-> <<>>,
              stored |-> 0]

HistoryInit == hist = NoHistory

Init ==
    /\ bron = [status |-> "idle", current_task_id |-> NoTask]
    /\ tasks = <<>>
    /\ messages = <<>>
    /\ recipes = <<>>
    /\ turn = NoTurn
    /\ ExecInit
    /\ SessionInit
    /\ FallbackInit
    /\ GuardInit
    /\ RaceInit
    /\ ParseInit
    /\ HistoryInit

\* ------------------------------------------------------------------------
\* Rows
\* ------------------------------------------------------------------------
\* ChatMessage(bron_id, role, content).  The row keeps where its content came
\* from: "user" the inbound text, "reply" the message of the AgentResponse,
\* "apology" one of the fixed texts of orchestrator.py:505, chat.py:189 and
\* chat.py:309.  task_state_update is a snapshot nothing reads back.
ChatMessage(role, content) == [role |-> role, content |-> content]

\* Task(state=DRAFT, progress=0.0) as both create_task_from_message and the
\* POST /tasks endpoint build it
NewTask == [state |-> "draft", progress |-> 0,
            next_action |-> NoneVal, waiting_on |-> NoneVal]

\* UIRecipe row as _create_ui_recipe builds it; is_submitted defaults to False
\* and submitted_data to NULL; submitted_seq orders the rows by the time of
\* their submission (updated_at), 0 while unsubmitted.  title, description
\* and schema are copied from the spec and never read again.
UIRecipe(spec, task_id, message_id) ==
    [component_type |-> spec.component_type,
     task_id |-> task_id, message_id |-> message_id,
     is_submitted |-> FALSE, submitted_data |-> NoData, submitted_seq |-> 0]

\* ------------------------------------------------------------------------
\* TaskOrchestrator._handle_agent_response
\* ------------------------------------------------------------------------
\* lines 409-417: the optional task-state delta
ApplyTaskUpdate(task, upd) ==
    IF ~upd.present THEN task
    ELSE [task EXCEPT
            !.state = IF upd.new_state # NoneVal THEN upd.new_state ELSE @,
            !.progress = IF upd.progress # NoProgress THEN upd.progress ELSE @,
            !.next_action = IF upd.next_action # NoneVal THEN upd.next_action ELSE @,
            !.waiting_on = IF upd.waiting_on # NoneVal THEN upd.waiting_on ELSE @]

\* RoutedTask with the delta applied after the intent switch
RoutedTask_IntentFirst(task, response) ==
    LET t0 == CASE response.intent = "complete" ->
                      [task EXCEPT !.state = "done", !.progress = 100]
                [] response.intent = "request_info" ->
                      [task EXCEPT !.state = "needs_info",
                                   !.waiting_on =
                                       IF /\ response.ui_recipe # NoRecipe
                                          /\ response.ui_recipe.title # NoneVal
                                       THEN response.ui_recipe.title ELSE @]
                [] response.intent = "execute" -> [task EXCEPT !.state = "ready"]
                [] response.intent = "error" -> [task EXCEPT !.state = "failed"]
                [] OTHER -> task
    IN  ApplyTaskUpdate(t0, response.task_update)

\* lines 420-438, the Task half of the intent switch
RoutedTask(task, response) ==
    LET t0 == ApplyTaskUpdate(task, response.task_update)
    IN  CASE response.intent = "complete" ->
                [t0 EXCEPT !.state = "done", !.progress = 100]
          [] response.intent = "request_info" ->
                [t0 EXCEPT !.state = "needs_info",
                           !.waiting_on =
                               IF /\ response.ui_recipe # NoRecipe
                                  /\ response.ui_recipe.title # NoneVal
                               THEN response.ui_recipe.title ELSE @]
          [] response.intent = "execute" -> [t0 EXCEPT !.state = "ready"]
          [] response.intent = "error" -> [t0 EXCEPT !.state = "failed"]
          [] OTHER -> t0

\* RoutedStatus with the complete branch setting BronStatus.COMPLETED
RoutedStatus_Completed(status, intent) ==
    CASE intent = "complete" -> "completed"
      [] intent = "request_info" -> "needs_info"
      [] intent = "execute" -> "ready"
      [] OTHER -> status

\* lines 420-438, the Bron half of the intent switch
RoutedStatus(status, intent) ==
    CASE intent = "complete" -> "idle"
      [] intent = "request_info" -> "needs_info"
      [] intent = "execute" -> "ready"
      [] OTHER -> status

\* _create_ui_recipe: UIComponentType(spec.component_type) raises ValueError
\* for a value outside the enum, before any row is added
CreateUiRecipeRaises(spec) == spec.component_type \notin UIComponentType

create_ui_recipe(recs, task_id, spec, message_id) ==
    IF CreateUiRecipeRaises(spec) THEN recs
    ELSE Append(recs, UIRecipe(spec, task_id, message_id))

\* The whole of _handle_agent_response.  The result names the rows after the
\* call and whether it raised; rows written before the raise stay in the
\* session.
handle_agent_response(b, tsk, task_id, response, msgs, recs) ==
    LET tsk1 == IF task_id # NoTask
                THEN [tsk EXCEPT ![task_id] = RoutedTask(tsk[task_id], response)]
                ELSE tsk
        b1 == [b EXCEPT !.status = RoutedStatus(b.status, response.intent)]
        msgs1 == Append(msgs, ChatMessage("assistant", "reply"))
        wantsRecipe == response.ui_recipe # NoRecipe
    IN  [bron |-> b1,
         tasks |-> tsk1,
         messages |-> msgs1,
         recipes |-> IF wantsRecipe
                     THEN create_ui_recipe(recs, task_id, response.ui_recipe, Len(msgs1))
                     ELSE recs,
         raised |-> wantsRecipe /\ CreateUiRecipeRaises(response.ui_recipe)]

\* _create_error_response
create_error_response(msgs) ==
    Append(msgs, ChatMessage("assistant", "apology"))

\* ------------------------------------------------------------------------
\* TaskOrchestrator.process_user_message
\* ------------------------------------------------------------------------
\* _get_current_task: the Task row bron.current_task_id names, if any
get_current_task(b, tsk) ==
    IF b.current_task_id \in DOMAIN tsk THEN b.current_task_id ELSE NoTask

\* The result of an orchestrator operation: the rows in the session when it
\* returned or raised, and the Task it worked on
process_user_message(b, tsk, msgs, recs, outcome) ==
    LET task_id == get_current_task(b, tsk)
        msgs1 == Append(msgs, ChatMessage("user", "user"))
        h == handle_agent_response(b, tsk, task_id, outcome.response, msgs1, recs)
    IN  IF outcome.raised
        THEN \* except Exception: return await self._create_error_response(...)
             [bron |-> b, tasks |-> tsk, messages |-> create_error_response(msgs1),
              recipes |-> recs, raised |-> FALSE, task |-> task_id,
              result |-> "error_response"]
        ELSE [bron |-> h.bron, tasks |-> h.tasks, messages |-> h.messages,
              recipes |-> h.recipes, raised |-> h.raised, task |-> task_id,
              result |-> "ok"]

\* ------------------------------------------------------------------------
\* TaskOrchestrator.create_task_from_message
\* ------------------------------------------------------------------------
\* task.id as line 161 reads it: the Task was built at line 150 and is not
\* flushed before line 168, and the primary key is a column default
\* (models/base.py:33-36) that is filled in by the INSERT, so the read
\* yields None
UnflushedTaskId == NoTask

\* InitialTaskFor that routes the new Task by the reply's intent
InitialTaskFor_ByIntent(response) ==
    IF response.intent = "request_info"
    THEN [NewTask EXCEPT !.state = "needs_info"]
    ELSE IF response.intent = "execute" THEN [NewTask EXCEPT !.state = "ready"]
    ELSE [NewTask EXCEPT !.state = "planned"]

\* InitialTaskFor without the ui_recipe branch of lines 174-177
InitialTaskFor_AlwaysPlanned(response) ==
    [NewTask EXCEPT !.state = "planned"]

\* lines 171-177: the state the new Task is left in
InitialTaskFor(response) ==
    IF response.ui_recipe # NoRecipe
    THEN [NewTask EXCEPT !.state = "needs_info",
                         !.waiting_on = IF response.ui_recipe.title # NoneVal
                                        THEN response.ui_recipe.title ELSE @]
    ELSE [NewTask EXCEPT !.state = "planned"]

create_task_from_message(b, tsk, msgs, recs, outcome) ==
    LET msgs1 == Append(msgs, ChatMessage("user", "user"))
        response == outcome.response
        task_id == Len(tsk) + 1
        task == InitialTaskFor(response)
        b1 == [b EXCEPT !.current_task_id = UnflushedTaskId, !.status = "working"]
        msgs2 == Append(msgs1, ChatMessage("assistant", "reply"))
        wantsRecipe == response.ui_recipe # NoRecipe
    IN  IF outcome.raised
        THEN \* process_message is not guarded here: the exception leaves the
             \* operation after the user message was flushed
             [bron |-> b, tasks |-> tsk, messages |-> msgs1, recipes |-> recs,
              raised |-> TRUE, task |-> NoTask, result |-> "raised"]
        ELSE [bron |-> b1,
              tasks |-> Append(tsk, task),
              messages |-> msgs2,
              recipes |-> IF wantsRecipe
                          THEN create_ui_recipe(recs, task_id, response.ui_recipe, Len(msgs2))
                          ELSE recs,
              raised |-> wantsRecipe /\ CreateUiRecipeRaises(response.ui_recipe),
              task |-> task_id, result |-> "ok"]

\* ------------------------------------------------------------------------
\* TaskOrchestrator.handle_ui_recipe_submission
\* ------------------------------------------------------------------------
\* dict.update
DictUpdate(d, e) ==
    [k \in (DOMAIN d) \cup (DOMAIN e) |-> IF k \in DOMAIN e THEN e[k] ELSE d[k]]

EmptyDict == [k \in {} |-> 0]

\* `if prev_recipe.submitted_data:` - neither NULL nor an empty dict
HasData(recipe) == recipe.submitted_data # NoData /\ DOMAIN recipe.submitted_data # {}

\* the orders in which a SELECT without ORDER BY may return a set of rows
RowOrders(S) ==
    { o \in [1..Cardinality(S) -> S] : \A i, j \in 1..Cardinality(S) : o[i] = o[j] => i = j }

\* lines 248-255: fold the rows' submitted_data in the order returned
RECURSIVE MergeRows(_, _, _, _)
MergeRows(recs, order, i, acc) ==
    IF i > Len(order) THEN acc
    ELSE MergeRows(recs, order, i + 1,
                   IF HasData(recs[order[i]])
                   THEN DictUpdate(acc, recs[order[i]].submitted_data)
                   ELSE acc)

\* rows of `UIRecipe.task_id == task.id, UIRecipe.is_submitted == True`
SubmittedRecipesOf(recs, task_id) ==
    { q \in DOMAIN recs : recs[q].task_id = task_id /\ recs[q].is_submitted }

\* number of submissions accepted so far
SubmittedCount(recs) == Cardinality({ q \in DOMAIN recs : recs[q].is_submitted })

\* lines 229-230
MarkSubmitted(recs, r, data) ==
    [recs EXCEPT ![r].submitted_data = data, ![r].is_submitted = TRUE,
                 ![r].submitted_seq = SubmittedCount(recs) + 1]

\* lines 239-258: all_submitted_data, for the order the store returned
all_submitted_data(recs, task_id, order, data) ==
    DictUpdate(IF task_id # NoTask THEN MergeRows(recs, order, 1, EmptyDict)
               ELSE EmptyDict,
               data)

\* line 234: the Bron of the recipe's message, else of its task, else None
OwnerResolved(recipe) ==
    recipe.message_id # NoMessage \/ recipe.task_id # NoTask

\* The rows of a request that ended with an HTTPException: get_db rolls the
\* session back (db/session.py:52-54), so what the handler wrote to its
\* session is dropped.
\* RolledBack that commits what the handler left in its session
RolledBack_Committed(stored, in_session) == in_session

RolledBack(stored, in_session) == stored

handle_ui_recipe_submission(b, tsk, msgs, recs, r, data, order, outcome) ==
    LET recs1 == MarkSubmitted(recs, r, data)
        task_id == recs[r].task_id
        merged == all_submitted_data(recs1, task_id, order, data)
        h == handle_agent_response(b, tsk, task_id, outcome.response, msgs, recs1)
    IN  IF ~OwnerResolved(recs[r])
        THEN \* lines 236-237: ValueError, after lines 229-230 marked the row
             [bron |-> b, tasks |-> tsk, messages |-> msgs, recipes |-> recs1,
              raised |-> TRUE, task |-> NoTask, result |-> "no_bron",
              merged |-> NoData]
        ELSE IF outcome.raised
        THEN [bron |-> b, tasks |-> tsk, messages |-> msgs, recipes |-> recs1,
              raised |-> TRUE, task |-> task_id, result |-> "raised",
              merged |-> merged]
        ELSE [bron |-> h.bron, tasks |-> h.tasks, messages |-> h.messages,
              recipes |-> h.recipes, raised |-> h.raised, task |-> task_id,
              result |-> "ok", merged |-> merged]

\* ------------------------------------------------------------------------
\* HTTP handlers
\* ------------------------------------------------------------------------
WithinBounds ==
    /\ Len(tasks') <= MaxTasks
    /\ Len(messages') <= MaxMessages
    /\ Len(recipes') <= MaxRecipes

\* what an endpoint's `except Exception` adds: one more assistant ChatMessage
Fallback(msgs, raised) ==
    IF raised THEN Append(msgs, ChatMessage("assistant", "apology")) ELSE msgs

\* POST /chat/message, bron.current_task_id set (chat.py:166-172)
send_message_continue ==
    /\ bron.current_task_id # NoTask
    /\ Len(messages) < MaxMessages
    /\ \E outcome \in ProcessMessageOutcomes :
         LET res == process_user_message(bron, tasks, messages, recipes, outcome)
         IN  /\ bron' = res.bron
             /\ tasks' = res.tasks
             /\ messages' = Fallback(res.messages, res.raised)
             /\ recipes' = res.recipes
             /\ turn' = [op |-> "process_user_message",
                         result |-> IF res.raised THEN "fallback" ELSE res.result,
                         outcome |-> outcome, task |-> res.task,
                         recipe |-> NoTask, merged |-> NoData]
    /\ WithinBounds
    /\ UNCHANGED serviceVars

\* POST /chat/message, no current task (chat.py:173-179)
send_message_new ==
    /\ bron.current_task_id = NoTask
    /\ Len(messages) < MaxMessages
    /\ Len(tasks) < MaxTasks
    /\ \E outcome \in ProcessMessageOutcomes :
         LET res == create_task_from_message(bron, tasks, messages, recipes, outcome)
         IN  /\ bron' = res.bron
             /\ tasks' = res.tasks
             /\ messages' = Fallback(res.messages, res.raised)
             /\ recipes' = res.recipes
             /\ turn' = [op |-> "create_task_from_message",
                         result |-> IF res.raised THEN "fallback" ELSE res.result,
                         outcome |-> outcome, task |-> res.task,
                         recipe |-> NoTask, merged |-> NoData]
    /\ WithinBounds
    /\ UNCHANGED serviceVars

\* chat.py:282
\* AlreadySubmitted without the endpoint's check of is_submitted
AlreadySubmitted_Unchecked(recipe) == FALSE

AlreadySubmitted(recipe) == recipe.is_submitted

\* One order for each all_submitted_data the store's answer can lead to:
\* orders that merge to the same dict are not told apart by anything later
MergeOrders(recs, task_id, data) ==
    LET orders == RowOrders(SubmittedRecipesOf(recs, task_id))
        merges == { all_submitted_data(recs, task_id, o, data) : o \in orders }
    IN  { CHOOSE o \in orders : all_submitted_data(recs, task_id, o, data) = m
            : m \in merges }

\* POST /chat/ui-recipe/submit
submit_ui_recipe ==
    \E r \in DOMAIN recipes, data \in Submissions(SubmittedCount(recipes) + 1) :
      IF AlreadySubmitted(recipes[r])
      THEN \* HTTP 400, the session is rolled back
           /\ turn' = [NoTurn EXCEPT !.op = "handle_ui_recipe_submission",
                                     !.result = "rejected", !.recipe = r]
           /\ UNCHANGED <<bron, tasks, messages, recipes, serviceVars>>
      ELSE IF ~OwnerResolved(recipes[r])
      THEN \* the orchestrator raises before any model call, the endpoint
           \* finds bron_id None and answers HTTP 400 (chat.py:300-304)
           LET res == handle_ui_recipe_submission(bron, tasks, messages, recipes,
                                                  r, data, <<>>, NoOutcome)
           IN  /\ recipes' = RolledBack(recipes, res.recipes)
               /\ turn' = [NoTurn EXCEPT !.op = "handle_ui_recipe_submission",
                                         !.result = res.result, !.recipe = r]
               /\ UNCHANGED <<bron, tasks, messages, serviceVars>>
      ELSE /\ Len(messages) < MaxMessages
           /\ \E order \in MergeOrders(MarkSubmitted(recipes, r, data),
                                       recipes[r].task_id, data) :
                \E outcome \in ProcessMessageOutcomes :
                 LET res == handle_ui_recipe_submission(bron, tasks, messages, recipes,
                                                        r, data, order, outcome)
                 IN  /\ bron' = res.bron
                     /\ tasks' = res.tasks
                     /\ messages' = Fallback(res.messages, res.raised)
                     /\ recipes' = res.recipes
                     /\ turn' = [op |-> "handle_ui_recipe_submission",
                                 result |-> IF res.raised THEN "fallback" ELSE res.result,
                                 outcome |-> outcome, task |-> res.task,
                                 recipe |-> r, merged |-> res.merged]
           /\ WithinBounds
           /\ UNCHANGED serviceVars

\* POST /tasks/{task_id}/execute; a Task in another state is answered with
\* HTTP 400 and nothing changes
execute_task ==
    \E t \in DOMAIN tasks :
      /\ tasks[t].state = "ready"
      /\ tasks' = [tasks EXCEPT ![t].state = "executing"]
      /\ turn' = NoTurn
      /\ UNCHANGED <<bron, messages, recipes, serviceVars>>

\* POST /tasks
create_task ==
    /\ Len(tasks) < MaxTasks
    /\ tasks' = Append(tasks, NewTask)
    /\ turn' = NoTurn
    /\ UNCHANGED <<bron, messages, recipes, serviceVars>>

\* PATCH /brons/{bron_id} with current_task_id in the body
update_bron ==
    \E t \in DOMAIN tasks :
      /\ bron.current_task_id # t
      /\ bron' = [bron EXCEPT !.current_task_id = t]
      /\ turn' = NoTurn
      /\ UNCHANGED <<tasks, messages, recipes, serviceVars>>

Next ==
    \/ send_message_continue
    \/ send_message_new
    \/ submit_ui_recipe
    \/ execute_task
    \/ create_task
    \/ update_bron

Spec == Init /\ [][Next]_vars

TypeOK ==
    /\ bron.status \in BronStatus
    /\ bron.current_task_id \in {NoTask} \cup DOMAIN tasks
    /\ \A t \in DOMAIN tasks : tasks[t].state \in TaskState
    /\ \A r \in DOMAIN recipes : recipes[r].component_type \in UIComponentType

\* ========================================================================
\* External API Executor and Credential Store (api_executor.py)
\* ========================================================================
\* a Credential row as store_oauth_credential / store_api_key_credential
\* insert it
\* insert it; rejected records that a provider answered 401 to a request that
\* used the row
\* a row as the store helpers insert it; last_used_at names the execute call
\* that last used the row (0 for None), rejected that a 401 invalidated it
NewCredential == [is_valid |-> TRUE, rejected |-> FALSE, last_used_at |-> 0]

\* ORDER BY updated_at DESC
NewestFirst(order) == [i \in 1..Len(order) |-> order[Len(order) + 1 - i]]

\* a row was written: onupdate=func.now() makes it the most recently updated
Touch(order, k) == SelectSeq(order, LAMBDA j : j # k) \o <<k>>

ValidRows(rows) == { k \in DOMAIN rows : rows[k].is_valid }

\* get_credential that falls back to the latest row when no valid one exists
get_credential_LatestIfNone(rows, order) ==
    LET hits == SelectSeq(NewestFirst(order), LAMBDA k : rows[k].is_valid)
    IN  IF Len(hits) = 0
        THEN IF Len(order) = 0 THEN [kind |-> "none", id |-> NoCred]
             ELSE [kind |-> "row", id |-> order[Len(order)]]
        ELSE IF Len(hits) = 1 THEN [kind |-> "row", id |-> hits[1]]
        ELSE [kind |-> "MultipleResultsFound", id |-> NoCred]

\* get_credential without the is_valid condition of the query
get_credential_AnyValidity(rows, order) ==
    LET hits == NewestFirst(order)
    IN  IF Len(hits) = 0 THEN [kind |-> "none", id |-> NoCred]
        ELSE IF Len(hits) = 1 THEN [kind |-> "row", id |-> hits[1]]
        ELSE [kind |-> "MultipleResultsFound", id |-> NoCred]

\* APIExecutor._get_credential: the valid rows of the pair, newest first,
\* through scalar_one_or_none: None for no row, the row for one, and
\* sqlalchemy's MultipleResultsFound for more than one
get_credential(rows, order) ==
    LET hits == SelectSeq(NewestFirst(order), LAMBDA k : rows[k].is_valid)
    IN  IF Len(hits) = 0 THEN [kind |-> "none", id |-> NoCred]
        ELSE IF Len(hits) = 1 THEN [kind |-> "row", id |-> hits[1]]
        ELSE [kind |-> "MultipleResultsFound", id |-> NoCred]

\* the most recently updated row with is_valid = true, NoCred without one
MostRecentValid(rows, order) ==
    LET hits == SelectSeq(NewestFirst(order), LAMBDA k : rows[k].is_valid)
    IN  IF Len(hits) = 0 THEN NoCred ELSE hits[1]

\* the text of the provider's response
ResponseText(outcome) == <<"text", outcome>>

\* lines 180-184: APIResponseError(status_code=..., response_body=...)
CarriedError(outcome) ==
    IF outcome \in {"200", "401", "429", "timeout"}
    THEN [status_code |-> NoneVal, response_body |-> NoneVal]
    ELSE [status_code |-> outcome, response_body |-> ResponseText(outcome)]

\* ResponseResult without the 429 branch of lines 177-178
ResponseResult_NoRateLimit(outcome) ==
    CASE outcome = "200" -> "ok"
      [] outcome = "401" -> "AuthenticationError"
      [] outcome = "timeout" -> "APIExecutionError"
      [] OTHER -> "APIResponseError"

\* the exception execute raises for the provider's answer (lines 149-188)
ResponseResult(outcome) ==
    CASE outcome = "200" -> "ok"
      [] outcome = "401" -> "AuthenticationError"
      [] outcome = "429" -> "RateLimitError"
      [] outcome = "timeout" -> "APIExecutionError"
      [] OTHER -> "APIResponseError"

\* InvalidatesCredential without the 401 branch of lines 171-175
InvalidatesCredential_Never(outcome) == FALSE

\* lines 171-175: a 401 sets credential.is_valid = False and commits
InvalidatesCredential(outcome) == outcome = "401"

\* RetriesRequest of an executor that sends the request again after a timeout
RetriesRequest_OnTimeout(outcome) == outcome = "timeout"

\* lines 149-188 and 253-291: one self._client.request, and every except
\* branch raises; nothing sends the request again
RetriesRequest(outcome) == FALSE

\* store_oauth_credential / store_api_key_credential: a new valid row
store_credential ==
    /\ Len(creds) < MaxCreds
    /\ creds' = Append(creds, NewCredential)
    /\ cred_order' = Append(cred_order, Len(creds) + 1)
    /\ UNCHANGED <<calls, orchVars, sessVars, localVars, auxVars>>

\* a revoke whose query only finds valid rows
revoke_OnlyValid(rows, order, id) ==
    IF id \in DOMAIN rows /\ rows[id].is_valid
    THEN [ret |-> TRUE, rows |-> [rows EXCEPT ![id].is_valid = FALSE],
          order |-> Touch(order, id)]
    ELSE [ret |-> FALSE, rows |-> rows, order |-> order]

\* revoke_credential(credential_id), lines 512-528: what it returns and the
\* store it leaves; the commit writes the row (and its updated_at) only when
\* is_valid changed
revoke(rows, order, id) ==
    IF id \in DOMAIN rows
    THEN [ret |-> TRUE, rows |-> [rows EXCEPT ![id].is_valid = FALSE],
          order |-> IF rows[id].is_valid THEN Touch(order, id) ELSE order]
    ELSE [ret |-> FALSE, rows |-> rows, order |-> order]

\* revoke_credential called with the id of a row, valid or not, or with an
\* id no row has
revoke_credential ==
    \E k \in 1..MaxCreds :
      /\ creds' = revoke(creds, cred_order, k).rows
      /\ cred_order' = revoke(creds, cred_order, k).order
      /\ UNCHANGED <<calls, orchVars, sessVars, localVars, auxVars>>

\* execute, lines 128-142: _get_credential, the refresh stub (which changes
\* nothing) and the KNOWN_APIS lookup
execute_get_credential ==
    \E c \in CallIds, known \in BOOLEAN :
      /\ calls[c].pc = "idle"
      /\ c > 1 => calls[c - 1].pc # "idle"
      /\ LET g == get_credential(creds, cred_order)
             c0 == [calls[c] EXCEPT
                      !.had_valid = ValidRows(creds) # {},
                      !.latest_valid = MostRecentValid(creds, cred_order),
                      !.rejected_before = { k \in DOMAIN creds : creds[k].rejected }]
         IN  calls' = [calls EXCEPT ![c] =
                 IF g.kind = "none"
                 THEN [c0 EXCEPT !.pc = "done", !.result = "AuthenticationError"]
                 ELSE IF g.kind = "MultipleResultsFound"
                 THEN [c0 EXCEPT !.pc = "done", !.result = "MultipleResultsFound"]
                 ELSE IF ~known
                 THEN [c0 EXCEPT !.pc = "done", !.cred = g.id,
                                 !.result = "APIExecutionError"]
                 ELSE [c0 EXCEPT !.pc = "build", !.cred = g.id]]
      /\ UNCHANGED <<creds, cred_order, orchVars, sessVars, localVars, auxVars>>

\* execute, lines 144-159 and _make_request: the request, authorised with the
\* credential read before, goes out
execute_make_request ==
    \E c \in CallIds :
      /\ calls[c].pc = "build"
      /\ calls' = [calls EXCEPT ![c].pc = "sent",
                                ![c].requests = @ + 1,
                                ![c].sent_invalid = ~creds[calls[c].cred].is_valid]
      /\ UNCHANGED <<creds, cred_order, orchVars, sessVars, localVars, auxVars>>

\* execute, lines 161-188: the provider answered, or the transport failed
execute_response ==
    \E c \in CallIds, outcome \in HttpOutcomes :
      /\ calls[c].pc = "sent"
      /\ LET k == calls[c].cred
         IN  /\ creds' = IF InvalidatesCredential(outcome)
                         THEN [creds EXCEPT ![k].is_valid = FALSE,
                                            ![k].rejected = TRUE]
                         ELSE IF outcome = "200"
                         THEN [creds EXCEPT ![k].last_used_at = c]
                         ELSE creds
             /\ cred_order' = IF InvalidatesCredential(outcome) \/ outcome = "200"
                              THEN Touch(cred_order, k)
                              ELSE cred_order
      /\ calls' = [calls EXCEPT
                     ![c].status = outcome,
                     ![c].pc = IF RetriesRequest(outcome) /\ calls[c].requests < 2
                               THEN "build" ELSE "done",
                     ![c].status_code = CarriedError(outcome).status_code,
                     ![c].response_body = CarriedError(outcome).response_body,
                     ![c].result = ResponseResult(outcome)]
      /\ UNCHANGED <<orchVars, sessVars, localVars, auxVars>>

ExecNext ==
    \/ store_credential
    \/ revoke_credential
    \/ execute_get_credential
    \/ execute_make_request
    \/ execute_response

SpecExec == Init /\ [][ExecNext]_vars

ExecTypeOK ==
    /\ \A k \in DOMAIN creds : creds[k].is_valid \in BOOLEAN
    /\ Len(cred_order) = Len(creds)
    /\ \A c \in CallIds : calls[c].cred \in {NoCred} \cup DOMAIN creds

\* ========================================================================
\* LLM Session Manager (claude.py): BronSessionManager and process_message
\* on the session path (the SDK is installed and bron_id is given)
\* ========================================================================
\* process_message answers an exception of the session path with the direct
\* API, except a timeout
FallsBack_ExceptTimeout(exc) == exc # "TimeoutError"

\* process_message, lines 465-472: `except Exception` around
\* _process_with_sdk_client, then the direct API
FallsBack(exc) == TRUE

\* the call after the session path raised exc
Raised(req, exc) ==
    IF FallsBack(exc)
    THEN [req EXCEPT !.pc = "fallback", !.target = NoSession]
    ELSE [req EXCEPT !.pc = "done", !.target = NoSession, !.result = exc]

\* `del self._sessions[bron_id]`
DelEntry(table, a) == [table EXCEPT ![a] = NoSession]

\* client.disconnect() has run
Disconnected(cl, k) == [cl EXCEPT ![k] = "disconnected"]

\* get_or_create_session, lines 374-380 up to the await of disconnect(), or,
\* with no entry, lines 385-405 up to the await of connect()
get_or_create_session_begin ==
    \E r \in ReqIds, a \in Agents :
      /\ reqs[r].pc = "idle"
      /\ r > 1 => reqs[r - 1].pc # "idle"
      /\ IF sessions[a] # NoSession
         THEN reqs' = [reqs EXCEPT ![r].pc = "disconnecting", ![r].agent = a,
                                   ![r].target = sessions[a]]
         ELSE reqs' = [reqs EXCEPT ![r].pc = "connecting", ![r].agent = a]
      /\ UNCHANGED <<sessions, clients, orchVars, execVars, localVars, auxVars>>

\* get_or_create_session, lines 380-405: disconnect() is over (an exception of it
\* is swallowed), `del self._sessions[bron_id]` raises KeyError when another
\* call removed the entry meanwhile
get_or_create_session_delete ==
    \E r \in ReqIds :
      /\ reqs[r].pc = "disconnecting"
      /\ clients' = Disconnected(clients, reqs[r].target)
      /\ IF sessions[reqs[r].agent] = NoSession
         THEN /\ reqs' = [reqs EXCEPT ![r] = Raised(@, "KeyError")]
              /\ UNCHANGED sessions
         ELSE /\ sessions' = DelEntry(sessions, reqs[r].agent)
              /\ reqs' = [reqs EXCEPT ![r].pc = "connecting", ![r].target = NoSession]
      /\ UNCHANGED <<orchVars, execVars, localVars, auxVars>>

\* get_or_create_session, lines 405-409: connect() is over; the client is
\* stored under bron_id and returned
get_or_create_session_connect ==
    \E r \in ReqIds, ok \in BOOLEAN :
      /\ reqs[r].pc = "connecting"
      /\ IF ok
         THEN /\ clients' = [clients EXCEPT ![r] = "connected"]
              /\ sessions' = [sessions EXCEPT ![reqs[r].agent] = r]
              /\ reqs' = [reqs EXCEPT ![r].pc = "query"]
         ELSE /\ reqs' = [reqs EXCEPT ![r] = Raised(@, "ConnectError")]
              /\ UNCHANGED <<sessions, clients>>
      /\ UNCHANGED <<orchVars, execVars, localVars, auxVars>>

\* _process_with_sdk_client, lines 584-603: the query under wait_for answers,
\* raises, or times out; on timeout close_session starts (lines 411-415)
run_sdk_query ==
    \E r \in ReqIds, outcome \in {"reply", "error", "timeout"} :
      /\ reqs[r].pc = "query"
      /\ reqs' = [reqs EXCEPT ![r] =
            CASE outcome = "reply" -> [@ EXCEPT !.pc = "done", !.result = "sdk_reply"]
              [] outcome = "error" -> Raised(@, "SessionError")
              [] OTHER ->
                    IF sessions[reqs[r].agent] # NoSession
                    THEN [@ EXCEPT !.pc = "closing", !.timed_out = TRUE,
                                   !.target = sessions[reqs[r].agent]]
                    ELSE Raised([@ EXCEPT !.timed_out = TRUE], "TimeoutError")]
      /\ UNCHANGED <<sessions, clients, orchVars, execVars, localVars, auxVars>>

\* close_session, lines 415-418, then `raise TimeoutError` (line 592)
close_session_delete ==
    \E r \in ReqIds :
      /\ reqs[r].pc = "closing"
      /\ clients' = Disconnected(clients, reqs[r].target)
      /\ IF sessions[reqs[r].agent] = NoSession
         THEN /\ reqs' = [reqs EXCEPT ![r] = Raised(@, "KeyError")]
              /\ UNCHANGED sessions
         ELSE /\ sessions' = DelEntry(sessions, reqs[r].agent)
              /\ reqs' = [reqs EXCEPT ![r] = Raised(@, "TimeoutError")]
      /\ UNCHANGED <<orchVars, execVars, localVars, auxVars>>

\* process_message, lines 474-478: _process_with_direct_api returns a reply,
\* returns its ERROR reply, or raises
process_with_direct_api ==
    \E r \in ReqIds,
       outcome \in {"fallback_reply", "fallback_error_reply", "fallback_raised"} :
      /\ reqs[r].pc = "fallback"
      /\ reqs' = [reqs EXCEPT ![r].pc = "done", ![r].result = outcome]
      /\ UNCHANGED <<sessions, clients, orchVars, execVars, localVars, auxVars>>

SessionNext ==
    \/ get_or_create_session_begin
    \/ get_or_create_session_delete
    \/ get_or_create_session_connect
    \/ run_sdk_query
    \/ close_session_delete
    \/ process_with_direct_api

SpecSession == Init /\ [][SessionNext]_vars

SessionTypeOK ==
    /\ \A a \in Agents : sessions[a] \in {NoSession} \cup ReqIds
    /\ \A r \in ReqIds : clients[r] \in {"none", "connected", "disconnected"}
    /\ \A r \in ReqIds : reqs[r].agent \in Agents \cup {NoneVal}

\* ========================================================================
\* Stateless fallback (claude.py): the retry loop of _process_with_direct_api
\* ========================================================================
\* str(e) of the error client.messages.create raises: "Error code: <status>
\* - <body>" with the body's error type; the strings the loop looks for
ErrorStr(outcome) ==
    CASE outcome = "400" -> {"400", "invalid_request_error"}
      [] outcome = "401" -> {"401", "authentication_error"}
      [] outcome = "429" -> {"429", "rate_limit_error"}
      [] outcome = "500" -> {"500", "api_error"}
      [] outcome = "502" -> {"502"}
      [] outcome = "503" -> {"503"}
      [] outcome = "529" -> {"529", "overloaded", "overloaded_error"}
      [] OTHER -> {"Request timed out."}

\* line 779: "529" in error_str or "overloaded" in error_str.lower() or
\* "500" in error_str
IsRetried(outcome) ==
    ErrorStr(outcome) \cap {"529", "overloaded", "500"} # {}

\* line 780: `attempt < max_retries - 1` lets the loop sleep and go on
LastAttempt == max_retries - 1

\* lines 754-764: the call starts, retry_delay = 1.0, attempt = 0
direct_api_start ==
    /\ fb.pc \in {"idle", "done"}
    /\ fb.turn_no < MaxFallbackTurns
    /\ fb' = [NoFallback EXCEPT !.pc = "call", !.turn_no = fb.turn_no + 1]
    /\ UNCHANGED <<sg, auxVars, orchVars, execVars, sessVars>>

\* lines 765-788 and 892-897: one client.messages.create; success leaves the
\* loop, a failure the test lets through sleeps, any other is raised and
\* answered with the ERROR reply
messages_create ==
    \E outcome \in ApiOutcomes :
      /\ fb.pc = "call"
      /\ fb' = IF outcome = "ok"
               THEN [fb EXCEPT !.pc = "done", !.calls = @ + 1, !.result = "reply"]
               ELSE IF IsRetried(outcome) /\ fb.attempt < LastAttempt
               THEN [fb EXCEPT !.pc = "sleep", !.calls = @ + 1,
                               !.errors = Append(@, outcome)]
               ELSE [fb EXCEPT !.pc = "done", !.calls = @ + 1,
                               !.errors = Append(@, outcome),
                               !.result = "error_reply"]
      /\ UNCHANGED <<sg, auxVars, orchVars, execVars, sessVars>>

\* lines 782-784: asyncio.sleep(retry_delay); retry_delay *= 2; continue
backoff_sleep ==
    /\ fb.pc = "sleep"
    /\ fb' = [fb EXCEPT !.pc = "call", !.attempt = @ + 1,
                        !.waits = Append(@, fb.retry_delay),
                        !.retry_delay = @ * 2]
    /\ UNCHANGED <<sg, auxVars, orchVars, execVars, sessVars>>

FallbackNext ==
    \/ direct_api_start
    \/ messages_create
    \/ backoff_sleep

SpecFallback == Init /\ [][FallbackNext]_vars

\* ========================================================================
\* Safety Guard (safety.py): the methods of SafetyGuard, called with every
\* argument of their domains
\* ========================================================================
call_analyze_message ==
    \E f \in AllTextFacts :
      /\ sg' = [NoGuardCall EXCEPT !.op = "analyze_message", !.facts = f,
                                   !.result = risk_of(f)]
      /\ UNCHANGED <<fb, auxVars, orchVars, execVars, sessVars>>

call_requires_confirmation ==
    \E r \in RiskLevel, c \in ActionCategory :
      /\ sg' = [NoGuardCall EXCEPT !.op = "requires_confirmation", !.risk = r,
                                   !.category = c,
                                   !.result = requires_confirmation(r, c)]
      /\ UNCHANGED <<fb, auxVars, orchVars, execVars, sessVars>>

call_get_confirmation_type ==
    \E r \in RiskLevel, c \in ActionCategory :
      /\ sg' = [NoGuardCall EXCEPT !.op = "get_confirmation_type", !.risk = r,
                                   !.category = c,
                                   !.result = get_confirmation_type(r, c)]
      /\ UNCHANGED <<fb, auxVars, orchVars, execVars, sessVars>>

call_sanitize_output ==
    \E t \in ModelTexts \cup {CardText, RedactedText, ApiFailureText} :
      /\ sg' = [NoGuardCall EXCEPT !.op = "sanitize_output", !.text = t,
                                   !.result = sanitize_output(t)]
      /\ UNCHANGED <<fb, auxVars, orchVars, execVars, sessVars>>

GuardNext ==
    \/ call_analyze_message
    \/ call_requires_confirmation
    \/ call_get_confirmation_type
    \/ call_sanitize_output

SpecGuard == Init /\ [][GuardNext]_vars

\* ========================================================================
\* Properties
\* ========================================================================
\* the operations that make up a turn
TurnOps == {"process_user_message", "create_task_from_message",
            "handle_ui_recipe_submission"}

\* a step in which a turn ran: every turn adds at least one ChatMessage, and
\* nothing else does
TurnStep == Len(messages') > Len(messages)

\* a turn in which process_message returned a reply
HasReply(t) == t.op \in TurnOps /\ t.result # "rejected" /\ ~t.outcome.raised

AssistantCount(msgs) ==
    Cardinality({ i \in DOMAIN msgs : msgs[i].role = "assistant" })

\* the UIRecipe rows attached to ChatMessage m
RecipesOfMessage(recs, m) == { r \in DOMAIN recs : recs[r].message_id = m }

\* the component types get_confirmation_type asks for (safety.py:213-216)
ApprovalComponents == {"approval", "confirmation"}

\* the text contains a keyword of RISK_KEYWORDS[HIGH]
DangerousText(text) == TextFacts(text).high

\* the Task row as an operation found it; a Task made in the step starts as
\* line 150-157 builds it
TaskBefore(t) == IF t \in DOMAIN tasks THEN tasks[t] ELSE NewTask

\* ------------------------------------------------------------------------
\* C1: after a turn whose model reply has intent execute, a text with a
\* dangerous keyword and no approval-style UI Recipe, the persisted reply
\* carries an approval-type UI Recipe, the Task is in needs_info (the intent
\* was downgraded to request_info) and neither the Task nor the Agent is
\* ready.
C1_DangerousExecuteIsOverridden ==
    ( /\ HasReply(turn)
      /\ turn.outcome.response.intent = "execute"
      /\ DangerousText(turn.outcome.response.message)
      /\ turn.outcome.response.ui_recipe.component_type \notin ApprovalComponents )
    => ( /\ \E r \in RecipesOfMessage(recipes, Len(messages)) :
                recipes[r].component_type \in ApprovalComponents
         /\ bron.status # "ready"
         /\ turn.task # NoTask =>
                /\ tasks[turn.task].state # "ready"
                /\ tasks[turn.task].state = "needs_info" )

\* ------------------------------------------------------------------------
\* C2: in a turn whose model reply is classified blocked, no field of the
\* Agent or of an existing Task changes, the Task of the turn is neither
\* ready nor executing afterwards, and the turn ends with an apology instead
\* of the reply.
C2_BlockedReplyIsVetoed ==
    [][ ( /\ TurnStep
          /\ HasReply(turn')
          /\ analyze_message(turn'.outcome.response.message) = "blocked" )
        => ( /\ bron' = bron
             /\ \A t \in DOMAIN tasks : tasks'[t] = tasks[t]
             /\ turn'.task # NoTask =>
                    tasks'[turn'.task].state \notin {"ready", "executing"}
             /\ messages'[Len(messages')].content = "apology" ) ]_vars

\* ------------------------------------------------------------------------
\* C3: a submitted UIRecipe stays submitted with the submitted_data of its
\* first submission; an attempt on an unsubmitted recipe submits it, and an
\* attempt on a submitted one is rejected.
C3_SubmittedExactlyOnce ==
    [][ \A r \in DOMAIN recipes :
          /\ recipes[r].is_submitted =>
                /\ recipes'[r].is_submitted
                /\ recipes'[r].submitted_data = recipes[r].submitted_data
          /\ ( /\ turn'.op = "handle_ui_recipe_submission"
               /\ turn'.recipe = r
               /\ (turn' # turn \/ TurnStep) )
             => IF recipes[r].is_submitted
                THEN turn'.result = "rejected" /\ recipes' = recipes
                ELSE recipes'[r].is_submitted /\ HasData(recipes'[r]) ]_vars

\* C3 witness: a second submission of a recipe was rejected and the recipe
\* still holds the data of its first submission
C3_Witness ==
    /\ turn.op = "handle_ui_recipe_submission"
    /\ turn.result = "rejected"
    /\ recipes[turn.recipe].is_submitted
    /\ HasData(recipes[turn.recipe])

\* ------------------------------------------------------------------------
\* C4: the merged data handed to the model maps every key to the value of
\* the most recent submission of the Task that contained the key.
KeysOfTask(recs, task_id) ==
    UNION { DOMAIN recs[q].submitted_data : q \in SubmittedRecipesOf(recs, task_id) }

MostRecentWith(recs, task_id, k) ==
    CHOOSE q \in SubmittedRecipesOf(recs, task_id) :
        /\ k \in DOMAIN recs[q].submitted_data
        /\ \A p \in SubmittedRecipesOf(recs, task_id) :
              k \in DOMAIN recs[p].submitted_data =>
                  recs[p].submitted_seq <= recs[q].submitted_seq

MostRecentWins(recs, task_id) ==
    [k \in KeysOfTask(recs, task_id) |->
        recs[MostRecentWith(recs, task_id, k)].submitted_data[k]]

C4_MergeMostRecentWins ==
    ( /\ turn.op = "handle_ui_recipe_submission"
      /\ turn.result # "rejected"
      /\ turn.task # NoTask )
    => turn.merged = MostRecentWins(recipes, turn.task)

\* ------------------------------------------------------------------------
\* C5: no step takes a Task from draft to done.
C5_NoDraftToDone ==
    [][ \A t \in DOMAIN tasks' :
          ~(TaskBefore(t).state = "draft" /\ tasks'[t].state = "done") ]_vars

\* ------------------------------------------------------------------------
\* C6: every change of Task.state follows an edge of the task state machine.
TaskEdges ==
    { <<"draft", "needs_info">>, <<"draft", "planned">>,
      <<"needs_info", "planned">>, <<"planned", "ready">>,
      <<"ready", "executing">>,
      <<"executing", "done">>, <<"executing", "failed">>,
      <<"executing", "waiting">>,
      <<"waiting", "executing">>, <<"waiting", "needs_info">> }

C6_StateMachineEdges ==
    [][ \A t \in DOMAIN tasks' :
          TaskBefore(t).state # tasks'[t].state =>
              <<TaskBefore(t).state, tasks'[t].state>> \in TaskEdges ]_vars

\* ------------------------------------------------------------------------
\* C7: a Task in done or failed keeps its state and progress.
C7_TerminalStates ==
    [][ \A t \in DOMAIN tasks :
          tasks[t].state \in {"done", "failed"} =>
              /\ tasks'[t].state = tasks[t].state
              /\ tasks'[t].progress = tasks[t].progress ]_vars

\* ------------------------------------------------------------------------
\* C8: the routing table.  RoutedByTable compares the Agent and the Task of
\* a turn before and after it with the row of the reply's intent.
RoutedByTable(response, status, statusAfter, task, taskAfter) ==
    CASE response.intent = "respond" ->
            /\ statusAfter = status
            /\ taskAfter.state = task.state
      [] response.intent = "request_info" ->
            /\ statusAfter = "needs_info"
            /\ taskAfter.state = "needs_info"
            /\ taskAfter.waiting_on =
                   IF response.ui_recipe # NoRecipe /\ response.ui_recipe.title # NoneVal
                   THEN response.ui_recipe.title ELSE task.waiting_on
      [] response.intent = "execute" ->
            /\ statusAfter = "ready"
            /\ taskAfter.state = "ready"
      [] response.intent = "complete" ->
            /\ statusAfter = "idle"
            /\ taskAfter.state = "done"
            /\ taskAfter.progress = 100
      [] response.intent = "error" ->
            /\ statusAfter = status
            /\ taskAfter.state = "failed"
      [] OTHER -> TRUE

RoutedTurn(ops) ==
    ( /\ TurnStep
      /\ HasReply(turn')
      /\ turn'.op \in ops
      /\ ~turn'.outcome.response.task_update.present
      /\ turn'.task # NoTask )
    => RoutedByTable(turn'.outcome.response, bron.status, bron'.status,
                     TaskBefore(turn'.task), tasks'[turn'.task])

C9_OneAssistantMessagePerTurn ==
    [][ TurnStep =>
          /\ AssistantCount(messages') = AssistantCount(messages) + 1
          /\ Len(recipes') <= Len(recipes) + 1 ]_vars

\* ------------------------------------------------------------------------
\* C10: a turn in which the model call failed persists a single assistant
\* message, and Task.state, Task.progress, Agent.status and
\* Agent.current_task_id keep their values.
C10_FailedModelCallMutatesNothing ==
    [][ ( /\ TurnStep
          /\ turn'.op \in TurnOps
          /\ turn'.outcome.failed )
        => ( /\ AssistantCount(messages') = AssistantCount(messages) + 1
             /\ bron'.status = bron.status
             /\ bron'.current_task_id = bron.current_task_id
             /\ \A t \in DOMAIN tasks' :
                   /\ tasks'[t].state = TaskBefore(t).state
                   /\ tasks'[t].progress = TaskBefore(t).progress ) ]_vars

\* ------------------------------------------------------------------------
\* C11: when the first message to an Agent without current task gets a reply
\* that carries a UI Recipe, then after create_task_from_message the Task is
\* in needs_info, Agent.status is needs_info, and exactly one assistant
\* ChatMessage exists, with a UIRecipe attached.
C11_FirstMessageRequestsInput ==
    [][ ( /\ TurnStep
          /\ messages = <<>>
          /\ turn'.op = "create_task_from_message"
          /\ HasReply(turn')
          /\ turn'.outcome.response.ui_recipe # NoRecipe )
        => ( /\ tasks'[turn'.task].state = "needs_info"
             /\ bron'.status = "needs_info"
             /\ AssistantCount(messages') = 1
             /\ \E m \in DOMAIN messages' :
                   /\ messages'[m].role = "assistant"
                   /\ RecipesOfMessage(recipes', m) # {} ) ]_vars

\* ------------------------------------------------------------------------
\* The chat requests alone: user messages and recipe submissions.  send_message
\* takes its current-task branch only when current_task_id is set, and among
\* the handlers only PATCH /brons sets it (create_task_from_message stores
\* UnflushedTaskId), so every user message of these behaviours takes the
\* create_task_from_message branch.
ChatNext ==
    \/ send_message_new
    \/ submit_ui_recipe

SpecChat == Init /\ [][ChatNext]_vars

C13_NoCredentialNoRequest ==
    \A c \in CallIds :
        (calls[c].pc # "idle" /\ ~calls[c].had_valid)
            => /\ calls[c].pc = "done"
               /\ calls[c].result = "AuthenticationError"
               /\ calls[c].requests = 0

\* C13 witness: the pair has a stored credential, but an invalid one, and an
\* execute has failed
C13_Witness ==
    \E c \in CallIds :
        /\ calls[c].pc = "done"
        /\ ~calls[c].had_valid
        /\ creds # <<>>
        /\ calls[c].result = "AuthenticationError"

\* ------------------------------------------------------------------------
\* C14: for every store of rows, a row that _get_credential returns has
\* is_valid = true, and an execute took a row only when a valid one existed.
C14_NeverReturnsInvalidRow ==
    /\ LET g == get_credential(creds, cred_order)
       IN  g.kind = "row" => creds[g.id].is_valid
    /\ \A c \in CallIds : calls[c].cred # NoCred => calls[c].had_valid

\* C14 witness: the most recently updated row is invalid and _get_credential
\* returns the older, valid row
C14_Witness ==
    /\ Len(cred_order) > 1
    /\ ~creds[cred_order[Len(cred_order)]].is_valid
    /\ get_credential(creds, cred_order).kind = "row"
    /\ get_credential(creds, cred_order).id # cred_order[Len(cred_order)]

\* ------------------------------------------------------------------------
\* C15: an execute the provider answered with 401 ends with
\* AuthenticationError and its credential is invalid from then on; an execute
\* that starts later never takes that credential, and fails with
\* AuthenticationError when no valid credential exists.
C15_UnauthorizedInvalidates ==
    /\ \A c \in CallIds :
          (calls[c].pc = "done" /\ calls[c].status = "401")
              => /\ calls[c].result = "AuthenticationError"
                 /\ ~creds[calls[c].cred].is_valid
    /\ \A d \in CallIds :
          (calls[d].pc # "idle" /\ calls[d].rejected_before # {})
              => /\ calls[d].cred \notin calls[d].rejected_before
                 /\ ~calls[d].had_valid =>
                        /\ calls[d].pc = "done"
                        /\ calls[d].result = "AuthenticationError"

\* C15 witness: one execute got a 401, and a later one for the same pair
\* failed with AuthenticationError
C15_Witness ==
    \E c, d \in CallIds :
        /\ calls[c].pc = "done" /\ calls[c].status = "401"
        /\ calls[d].pc = "done"
        /\ calls[c].cred \in calls[d].rejected_before
        /\ ~calls[d].had_valid
        /\ calls[d].result = "AuthenticationError"

\* ------------------------------------------------------------------------
\* C16: an execute issues at most one HTTP request.
C16_AtMostOneRequest ==
    \A c \in CallIds : calls[c].requests <= 1

\* C16 witness: an execute whose request timed out has ended with one request
C16_Witness ==
    \E c \in CallIds :
        /\ calls[c].pc = "done"
        /\ calls[c].status = "timeout"
        /\ calls[c].requests = 1

\* ------------------------------------------------------------------------
\* C17: no execute issues its request with a credential that has been marked
\* invalid since the execute read it.
C17_NeverSendsWithInvalidCredential ==
    \A c \in CallIds : ~calls[c].sent_invalid

\* ------------------------------------------------------------------------
\* Session manager properties
\* ------------------------------------------------------------------------
\* a process_message call that has started and not yet returned
Active(req) == req.pc \notin {"idle", "done"}

\* C18: turns of one Agent never overlap (no second call for the Agent is
\* under way, tearing down or replacing the session or invoking the model,
\* while an earlier one has not returned), and a call for one Agent never
\* changes the session entry of another Agent.
C18_TurnsNeverOverlap ==
    [][ /\ \A r1, r2 \in ReqIds :
              (r1 # r2 /\ Active(reqs'[r1]) /\ Active(reqs'[r2]))
                  => reqs'[r1].agent # reqs'[r2].agent
        /\ \A r \in ReqIds :
              reqs'[r] # reqs[r]
                  => \A b \in Agents \ {reqs'[r].agent} : sessions'[b] = sessions[b]
      ]_vars

\* C19: the table holds at most one session per Agent, a client made for a
\* call of that Agent, and when a call stores its new session every session
\* left from a call of the Agent that has returned is disconnected and out of
\* the table.
C19_FreshSessionPerRequest ==
    [][ /\ \A a \in Agents :
              sessions'[a] # NoSession => reqs'[sessions'[a]].agent = a
        /\ \A r \in ReqIds :
              (reqs[r].pc = "connecting" /\ reqs'[r].pc = "query")
                  => \A q \in ReqIds \ {r} :
                        (reqs[q].pc = "done" /\ reqs[q].agent = reqs[r].agent)
                            => /\ clients'[q] # "connected"
                               /\ sessions'[reqs[r].agent] # q
      ]_vars

FallbackResults == {"fallback_reply", "fallback_error_reply", "fallback_raised"}

\* C20: when the session query times out, the same process_message call
\* closes the Agent's session entry and removes it from the table, goes on to
\* the direct API, and what the caller gets is the direct API's outcome,
\* never the timeout.
C20_TimeoutFallsBack ==
    [][ \A r \in ReqIds :
          /\ (reqs'[r].timed_out /\ reqs[r].pc \in {"query", "closing"}
                /\ reqs'[r].pc # reqs[r].pc /\ reqs'[r].pc # "closing")
                => /\ sessions'[reqs[r].agent] = NoSession
                   /\ reqs[r].pc = "closing"
                         => clients'[reqs[r].target] = "disconnected"
                   /\ reqs'[r].pc = "fallback"
          /\ (reqs'[r].timed_out /\ reqs'[r].pc = "done")
                => reqs'[r].result \in FallbackResults
      ]_vars

C20_Witness ==
    \E r \in ReqIds :
        /\ reqs[r].timed_out
        /\ reqs[r].pc = "done"
        /\ reqs[r].result = "fallback_reply"
        /\ clients[r] = "disconnected"
        /\ sessions[reqs[r].agent] = NoSession

\* ------------------------------------------------------------------------
\* Stateless fallback properties
\* ------------------------------------------------------------------------
IsPrefix(a, b) == Len(a) <= Len(b) /\ \A i \in 1..Len(a) : a[i] = b[i]

\* the waits of three retries: base 1s, doubling
BackoffWaits == <<1, 2, 4>>

\* the failures of the turn are all of a kind the loop retries
KeepsFailing ==
    /\ fb.pc = "done"
    /\ fb.result = "error_reply"
    /\ \A i \in 1..Len(fb.errors) : IsRetried(fb.errors[i])

\* C21: a turn of the stateless fallback makes at most 4 model calls and its
\* waits are 1s, 2s, 4s in this order; a call that keeps failing transiently
\* is given all 3 retries (4 calls, waits 1s, 2s and 4s) before the loop stops.
C21_ThreeRetriesWithBackoff ==
    /\ fb.calls <= 4
    /\ IsPrefix(fb.waits, BackoffWaits)
    /\ KeepsFailing => (fb.calls = 4 /\ fb.waits = BackoffWaits)

\* the provider failures of the rate-limit, overload and server-error classes
TransientFailures == {"429", "500", "502", "503", "529"}

\* C22: a failed first model call of the stateless fallback is followed by a
\* wait and a second call if and only if the failure is of the rate-limit,
\* overload or server-error class.
C22_RetriedIffTransient ==
    [][ (fb.pc = "call" /\ fb.attempt = 0 /\ fb'.errors # fb.errors)
            => (fb'.pc = "sleep" <=> fb'.errors[1] \in TransientFailures)
      ]_vars

\* ------------------------------------------------------------------------
\* Credential properties
\* ------------------------------------------------------------------------
\* C23: whenever at least one valid row exists when an execute resolves its
\* credential, the resolution succeeds and yields the most recently updated
\* valid row, also when several rows are valid.
C23_LatestValidRowWins ==
    \A c \in CallIds :
        (calls[c].pc # "idle" /\ calls[c].had_valid)
            => /\ calls[c].result # "MultipleResultsFound"
               /\ calls[c].cred = calls[c].latest_valid

\* C24: a 401 raises AuthenticationError, a 429 RateLimitError, another
\* error status APIResponseError carrying the status and the response body,
\* a transport failure the generic APIExecutionError; in the last three cases
\* the call leaves the credential row (is_valid, last_used_at) as it was.
C24_ErrorMapping ==
    [][ \A c \in CallIds :
          (calls[c].pc = "sent" /\ calls'[c].pc = "done")
            => LET o == calls'[c].status
                   k == calls[c].cred
               IN  /\ o = "401" => calls'[c].result = "AuthenticationError"
                   /\ o = "429" => calls'[c].result = "RateLimitError"
                   /\ o = "500" =>
                        /\ calls'[c].result = "APIResponseError"
                        /\ calls'[c].status_code = o
                        /\ calls'[c].response_body = ResponseText(o)
                   /\ o = "timeout" => calls'[c].result = "APIExecutionError"
                   /\ o \in {"429", "500", "timeout"} => creds'[k] = creds[k]
      ]_vars

C24_Witness ==
    /\ \E c \in CallIds : calls[c].result = "RateLimitError"
    /\ \E c \in CallIds :
          /\ calls[c].result = "APIResponseError"
          /\ creds[calls[c].cred].is_valid
          /\ creds[calls[c].cred].last_used_at = 0

\* C27: revoke_credential returns true iff a row with the id exists and
\* leaves that row invalid; a second call with the same id returns true
\* again and leaves the store as the first call left it; with an unknown id
\* it returns false and changes nothing.
C27_RevokeIdempotent ==
    \A id \in 1..MaxCreds :
        LET r1 == revoke(creds, cred_order, id)
            r2 == revoke(r1.rows, r1.order, id)
        IN  /\ r1.ret <=> id \in DOMAIN creds
            /\ r1.ret => /\ ~r1.rows[id].is_valid
                         /\ r2.ret
                         /\ r2.rows = r1.rows
                         /\ r2.order = r1.order
            /\ ~r1.ret => (r1.rows = creds /\ r1.order = cred_order)

\* a row was revoked (not rejected by the provider) and an id without a row
\* remains
C27_Witness ==
    /\ Len(creds) < MaxCreds
    /\ \E k \in DOMAIN creds : ~creds[k].is_valid /\ ~creds[k].rejected

\* ------------------------------------------------------------------------
\* Safety Guard properties
\* ------------------------------------------------------------------------
\* C25: requires_confirmation(risk, category) is true exactly when risk is
\* blocked or high, or category is delete or financial, or risk is medium and
\* category is send or execute; for risk blocked it is true with every
\* category.
C25_RequiresConfirmationTable ==
    sg.op = "requires_confirmation"
        => /\ sg.result <=> \/ sg.risk \in {"blocked", "high"}
                            \/ sg.category \in {"delete", "financial"}
                            \/ /\ sg.risk = "medium"
                               /\ sg.category \in {"send", "execute"}
           /\ sg.risk = "blocked" => sg.result

C25_Witness ==
    /\ sg.op = "requires_confirmation"
    /\ sg.risk = "medium"
    /\ sg.category = "execute"
    /\ sg.result = TRUE

\* C26: analyze_message returns blocked for every message in which a
\* BLOCKED_ACTIONS pattern is found, whichever high, medium or low keywords
\* it also contains.
C26_BlockedPatternWins ==
    (sg.op = "analyze_message" /\ sg.facts.blocked_pattern)
        => sg.result = "blocked"

C26_Witness ==
    /\ sg.op = "analyze_message"
    /\ sg.facts.blocked_pattern
    /\ sg.facts.high /\ sg.facts.medium /\ sg.facts.low
    /\ sg.result = "blocked"

\* the text of the ChatMessage row whose content is "reply": orchestrator.py
\* lines 180-184 and 444-449 store content=response.message as it came
PersistedReplyText(response) == response.message

\* C28: the content of every assistant ChatMessage a turn persists has passed
\* through sanitize_output: it matches no sensitive-data pattern.
C28_AssistantMessagesSanitized ==
    [][ ( /\ TurnStep
          /\ HasReply(turn')
          /\ messages'[Len(messages')].role = "assistant"
          /\ messages'[Len(messages')].content = "reply" )
            => LET text == PersistedReplyText(turn'.outcome.response)
               IN  /\ ~TextFacts(text).sensitive
                   /\ sanitize_output(text) = text
      ]_vars

\* ------------------------------------------------------------------------
\* create_task_from_message properties
\* ------------------------------------------------------------------------
\* C29: after create_task_from_message returns, Agent.current_task_id is
\* non-null and is the id of the Task the call created.
C29_CurrentTaskIsSet ==
    [][ ( /\ TurnStep
          /\ turn'.op = "create_task_from_message"
          /\ turn'.result = "ok" )
            => /\ bron'.current_task_id # NoTask
               /\ bron'.current_task_id = turn'.task
      ]_vars

\* C30: create_task_from_message leaves the new Task in needs_info with
\* waiting_on = the recipe's title when the reply carries a UI Recipe and in
\* planned otherwise, whatever the intent of the reply.
C30_NewTaskPlannedOrNeedsInfo ==
    [][ ( /\ TurnStep
          /\ turn'.op = "create_task_from_message"
          /\ HasReply(turn') )
            => LET response == turn'.outcome.response
                   task == tasks'[turn'.task]
               IN  IF response.ui_recipe # NoRecipe
                   THEN /\ task.state = "needs_info"
                        /\ task.waiting_on = response.ui_recipe.title
                   ELSE task.state = "planned"
      ]_vars

C30_Witness ==
    /\ turn.op = "create_task_from_message"
    /\ HasReply(turn)
    /\ turn.outcome.response.intent = "execute"
    /\ turn.task \in DOMAIN tasks
    /\ tasks[turn.task].state = "planned"


\* ========================================================================
\* Replies that carry a task-state delta (AgentResponse.task_update)
\* ========================================================================
\* turns of process_user_message whose reply carries a delta
MaxRouted == 2

\* TaskStateUpdate values: all four fields set; only new_state set; only
\* next_action and waiting_on set.  new_state is one of the TaskState names.
TaskUpdates ==
    { [new_state |-> "waiting", progress |-> 50, next_action |-> "book",
       waiting_on |-> "payment", present |-> TRUE],
      [new_state |-> "executing", progress |-> NoProgress, next_action |-> NoneVal,
       waiting_on |-> NoneVal, present |-> TRUE],
      [new_state |-> NoneVal, progress |-> NoProgress, next_action |-> "book",
       waiting_on |-> "payment", present |-> TRUE] }

\* AgentResponse values with a delta: every intent, and for request_info a
\* reply with and without a titled UIRecipeSpec
RoutedOutcomes ==
    UNION { { [raised |-> FALSE, failed |-> FALSE,
               response |-> [intent |-> i, message |-> "plain",
                             ui_recipe |-> s, task_update |-> u]]
                : u \in TaskUpdates,
                  s \in IF i = "request_info"
                        THEN {NoRecipe, [component_type |-> "form",
                                         title |-> "Trip details"]}
                        ELSE {NoRecipe} }
            : i \in AgentIntent }

\* POST /chat/message with a current task, answered by a reply with a delta
send_message_with_update ==
    /\ bron.current_task_id # NoTask
    /\ Len(messages) < 2 * MaxRouted
    /\ \E outcome \in RoutedOutcomes :
         LET res == process_user_message(bron, tasks, messages, recipes, outcome)
         IN  /\ bron' = res.bron
             /\ tasks' = res.tasks
             /\ messages' = Fallback(res.messages, res.raised)
             /\ recipes' = res.recipes
             /\ turn' = [op |-> "process_user_message",
                         result |-> IF res.raised THEN "fallback" ELSE res.result,
                         outcome |-> outcome, task |-> res.task,
                         recipe |-> NoTask, merged |-> NoData]
    /\ Len(recipes') <= MaxRecipes
    /\ UNCHANGED serviceVars

RouteNext ==
    \/ create_task
    \/ update_bron
    \/ send_message_with_update

SpecRoute == Init /\ [][RouteNext]_vars

\* the Task.state an intent's branch assigns (orchestrator.py:420-438)
IntentState(intent) ==
    CASE intent = "complete" -> "done"
      [] intent = "request_info" -> "needs_info"
      [] intent = "execute" -> "ready"
      [] intent = "error" -> "failed"
      [] OTHER -> NoneVal

\* C31: when a reply carries a task-state delta and an intent, the delta is
\* applied first and the intent second: after request_info, execute, complete
\* and error the Task has the state of the intent whatever new_state the delta
\* named; after respond and update_task it has the delta's new_state; the
\* delta's next_action and waiting_on stay unless the intent overwrites them
\* (request_info with a titled UI Recipe overwrites waiting_on).
C31_DeltaThenIntent ==
    [][ ( /\ TurnStep
          /\ HasReply(turn')
          /\ turn'.outcome.response.task_update.present
          /\ turn'.task # NoTask )
            => LET response == turn'.outcome.response
                   upd == response.task_update
                   before == tasks[turn'.task]
                   after == tasks'[turn'.task]
               IN  /\ after.state =
                        IF IntentState(response.intent) # NoneVal
                        THEN IntentState(response.intent)
                        ELSE IF upd.new_state # NoneVal THEN upd.new_state
                        ELSE before.state
                   /\ after.next_action =
                        IF upd.next_action # NoneVal THEN upd.next_action
                        ELSE before.next_action
                   /\ after.waiting_on =
                        IF /\ response.intent = "request_info"
                           /\ response.ui_recipe # NoRecipe
                           /\ response.ui_recipe.title # NoneVal
                        THEN response.ui_recipe.title
                        ELSE IF upd.waiting_on # NoneVal THEN upd.waiting_on
                        ELSE before.waiting_on
      ]_vars

\* a reply of intent complete whose delta named state waiting was routed: the
\* Task is done and keeps the delta's next_action and waiting_on
C31_Witness ==
    /\ turn.op = "process_user_message"
    /\ HasReply(turn)
    /\ turn.outcome.response.intent = "complete"
    /\ turn.outcome.response.task_update.new_state = "waiting"
    /\ turn.task \in DOMAIN tasks
    /\ tasks[turn.task].state = "done"
    /\ tasks[turn.task].next_action = "book"
    /\ tasks[turn.task].waiting_on = "payment"


\* ========================================================================
\* Submissions that fail
\* ========================================================================
\* _create_ui_recipe(task_id=None, spec, message_id=None): both references
\* are Optional (orchestrator.py:466-468) and nullable (ui_recipe.py:217-220)
create_unowned_recipe ==
    /\ Len(recipes) < MaxRecipes
    /\ recipes' = create_ui_recipe(recipes, NoTask,
                                   [component_type |-> "form", title |-> NoneVal],
                                   NoMessage)
    /\ turn' = NoTurn
    /\ UNCHANGED <<bron, tasks, messages, serviceVars>>

SubmitNext ==
    \/ send_message_new
    \/ submit_ui_recipe
    \/ create_unowned_recipe

SpecSubmit == Init /\ [][SubmitNext]_vars

\* a submission request for recipe r was answered in this step
SubmissionOf(r) ==
    /\ turn'.op = "handle_ui_recipe_submission"
    /\ turn'.recipe = r
    /\ (turn' # turn \/ TurnStep)

\* C32: a submission fails when the recipe is already submitted and when no
\* owning Agent can be resolved from its message or its task; in both cases
\* the recipe keeps its is_submitted and submitted_data, no model call is
\* made and no ChatMessage is stored.
C32_FailedSubmissionChangesNothing ==
    [][ \A r \in DOMAIN recipes :
          ( /\ SubmissionOf(r)
            /\ (recipes[r].is_submitted \/ ~OwnerResolved(recipes[r])) )
            => /\ turn'.result \in {"rejected", "no_bron"}
               /\ recipes'[r].is_submitted = recipes[r].is_submitted
               /\ recipes'[r].submitted_data = recipes[r].submitted_data
               /\ turn'.outcome = NoOutcome
               /\ messages' = messages
      ]_vars

\* a submission for an unsubmitted recipe without message and task failed
\* and left the recipe unsubmitted, after another submission was rejected
\* because its recipe was submitted already
C32_Witness ==
    /\ turn.op = "handle_ui_recipe_submission"
    /\ turn.result = "no_bron"
    /\ ~OwnerResolved(recipes[turn.recipe])
    /\ ~recipes[turn.recipe].is_submitted
    /\ \E q \in DOMAIN recipes : recipes[q].is_submitted


\* ========================================================================
\* Submissions processed side by side (chat.py:255-315)
\* ========================================================================
\* Every request has its own AsyncSession (db/session.py:46-56) and nothing
\* else orders two requests, so they interleave at every await.  The rows in
\* `recipes` are the committed ones.

\* chat.py:266-286: the endpoint loads the recipe and looks at is_submitted
submit_read(s) ==
    /\ subs[s].pc = "idle"
    /\ \E r \in DOMAIN recipes, data \in Submissions(s) :
         /\ OwnerResolved(recipes[r])
         /\ subs' = [subs EXCEPT ![s] =
                IF AlreadySubmitted(recipes[r])
                THEN [@ EXCEPT !.pc = "done", !.recipe = r, !.result = "rejected"]
                ELSE [@ EXCEPT !.pc = "checked", !.recipe = r, !.data = data]]
    /\ UNCHANGED <<pr, hist, orchVars, execVars, sessVars, localVars>>

\* another request has written to the database and not committed yet
WriterActive(s) == \E q \in SubIds \ {s} : subs[q].pc = "model"

\* orchestrator.py:229-279: the row is marked in the request's session, the
\* next query flushes the UPDATE, then process_message is awaited.  The
\* database lets one transaction write at a time, so the flush waits for a
\* writer that has not committed.
submit_flush(s) ==
    /\ subs[s].pc = "checked"
    /\ ~WriterActive(s)
    /\ subs' = [subs EXCEPT ![s].pc = "model", ![s].model_calls = @ + 1]
    /\ UNCHANGED <<pr, hist, orchVars, execVars, sessVars, localVars>>

\* the wait for the writer exceeds the driver's timeout: the flush raises
\* OperationalError (database is locked), the endpoint's except branch
\* cannot flush its ChatMessage either, and the session is rolled back
submit_db_locked(s) ==
    /\ subs[s].pc = "checked"
    /\ WriterActive(s)
    /\ subs' = [subs EXCEPT ![s].pc = "done", ![s].result = "db_locked"]
    /\ UNCHANGED <<pr, hist, orchVars, execVars, sessVars, localVars>>

\* orchestrator.py:281-291 and the commit of get_db: the reply is handled
\* and the request's rows, the recipe with its submitted_data among them,
\* are committed
submit_commit(s) ==
    /\ subs[s].pc = "model"
    /\ Len(messages) < MaxMessages
    /\ LET r == subs[s].recipe
           data == subs[s].data
       IN  \E order \in MergeOrders(MarkSubmitted(recipes, r, data),
                                    recipes[r].task_id, data) :
             \E outcome \in ProcessMessageOutcomes :
               LET res == handle_ui_recipe_submission(bron, tasks, messages, recipes,
                                                      r, data, order, outcome)
               IN  /\ bron' = res.bron
                   /\ tasks' = res.tasks
                   /\ messages' = Fallback(res.messages, res.raised)
                   /\ recipes' = res.recipes
                   /\ turn' = [op |-> "handle_ui_recipe_submission",
                               result |-> IF res.raised THEN "fallback" ELSE res.result,
                               outcome |-> outcome, task |-> res.task,
                               recipe |-> r, merged |-> res.merged]
    /\ Len(recipes') <= MaxRecipes
    /\ subs' = [subs EXCEPT ![s].pc = "done", ![s].result = "ok"]
    /\ UNCHANGED <<pr, hist, execVars, sessVars, localVars>>

RaceNext ==
    \/ send_message_new
    \/ \E s \in SubIds : submit_read(s)
    \/ \E s \in SubIds : submit_flush(s)
    \/ \E s \in SubIds : submit_db_locked(s)
    \/ \E s \in SubIds : submit_commit(s)

SpecRace == Init /\ [][RaceNext]_vars

\* the requests that were accepted for recipe r
AcceptedFor(r) ==
    { s \in SubIds : subs[s].recipe = r /\ subs[s].result = "ok" }

\* C33: of the submissions for one UIRecipe at most one is accepted, and at
\* most one follow-up model turn is issued for the recipe, also when the
\* submissions are processed side by side.
C33_OneSubmissionWins ==
    \A r \in DOMAIN recipes :
        LET callers == { s \in SubIds : subs[s].recipe = r /\ subs[s].model_calls > 0 }
        IN  /\ Cardinality(AcceptedFor(r)) <= 1
            /\ Cardinality(callers) <= 1


\* ========================================================================
\* Interpretation of model replies (claude.py)
\* ========================================================================
\* component_type values the request_user_input tool offers to the model
\* (claude.py:302 on the session path, claude.py:615 on the stateless path)
RequestInputTypes == {"form", "option_buttons", "option_cards", "quick_replies",
                      "action_cards", "styled_list", "info_chips"}

\* provider and auth_type arguments of request_auth; claude.py:355 offers
\* oauth and api_key, claude.py:688 also credentials
AuthProviders == {"google", "apple", "stripe"}
AuthTypes == {"oauth", "api_key", "credentials"}

\* a tool name neither path knows
UnknownTool == "get_weather"

\* the tool_use blocks a reply may contain.  fields_ok is FALSE for a
\* request_user_input payload in which a field descriptor is not a mapping
\* ({"name": "text"}); hits is the number of APIs search_apis finds.
ToolCalls ==
    { [name |-> "request_user_input", component_type |-> c, provider |-> NoneVal,
       auth_type |-> NoneVal, fields_ok |-> TRUE, hits |-> 0] : c \in RequestInputTypes }
    \cup
    { [name |-> "request_user_input", component_type |-> "form", provider |-> NoneVal,
       auth_type |-> NoneVal, fields_ok |-> FALSE, hits |-> 0] }
    \cup
    { [name |-> "request_auth", component_type |-> NoneVal, provider |-> p,
       auth_type |-> a, fields_ok |-> TRUE, hits |-> 0]
        : p \in AuthProviders, a \in AuthTypes }
    \cup
    { [name |-> "search_api", component_type |-> NoneVal, provider |-> NoneVal,
       auth_type |-> NoneVal, fields_ok |-> TRUE, hits |-> h] : h \in {0, 1} }
    \cup
    { [name |-> UnknownTool, component_type |-> NoneVal, provider |-> NoneVal,
       auth_type |-> NoneVal, fields_ok |-> TRUE, hits |-> 0] }

ToolSeqs == UNION { [1..n -> ToolCalls] : n \in 1..MaxToolCalls }

\* The text of a reply, by what _parse_agent_response can observe:
\*   block        : an embedded UI Recipe block is found in it
\*   rest_empty   : nothing but whitespace remains outside the block
\*   completion, confirmation, error, question : the remaining text contains
\*                  a word of the list of line 1028, 1030, 1032, 1034
ReplyTexts ==
    { t \in [block : BOOLEAN, rest_empty : BOOLEAN, completion : BOOLEAN,
             confirmation : BOOLEAN, error : BOOLEAN, question : BOOLEAN] :
        t.rest_empty => ~(t.completion \/ t.confirmation \/ t.error \/ t.question) }

\* the texts that accompany tool calls here
ToolReplyTexts ==
    { t \in ReplyTexts : /\ t.completion = t.confirmation
                         /\ t.confirmation = t.error
                         /\ t.block => ~(t.completion \/ t.question) }

\* component_type of the embedded block: recipe_data.get("component_type", "form")
EmbeddedType == "form"

\* text_response += "\n\nFound ..." and full_response.append("Using ...")
WithNote(t) == [t EXCEPT !.rest_empty = FALSE]

EmptyText(t) == ~t.block /\ t.rest_empty

\* lines 1028-1037: the keyword classes in the order they are tried
TextIntent(t) ==
    IF t.completion THEN "complete"
    ELSE IF t.confirmation THEN "execute"
    ELSE IF t.error THEN "error"
    ELSE IF t.question THEN "request_info"
    ELSE "respond"

\* _parse_agent_response, lines 971-1043.  The message is
\* `clean_message or response_text`: the text without the block, unless that
\* is empty.
parse_agent_response(t) ==
    [outcome |-> "reply",
     intent |-> IF t.block THEN "request_info" ELSE TextIntent(t),
     message |-> [kind |-> "model_text", shows_block |-> t.block /\ t.rest_empty],
     ui_recipe |-> IF t.block THEN EmbeddedType ELSE NoneVal]

\* lines 565-572
SdkAuthComponent(provider, auth_type) ==
    IF auth_type = "oauth"
    THEN IF provider = "google" THEN "auth_google"
         ELSE IF provider = "apple" THEN "auth_apple"
         ELSE "service_connect"
    ELSE "api_key_input"

\* lines 851-859
DirectAuthComponent(provider, auth_type) ==
    IF provider = "google" THEN "auth_google"
    ELSE IF provider = "apple" THEN "auth_apple"
    ELSE IF auth_type = "api_key" THEN "api_key_input"
    ELSE IF auth_type = "credentials" THEN "credentials_input"
    ELSE "auth_oauth"

AuthComponent(path, provider, auth_type) ==
    IF path = "sdk" THEN SdkAuthComponent(provider, auth_type)
    ELSE DirectAuthComponent(provider, auth_type)

\* _convert_fields_to_schema, lines 1045-1055: field.get raises
\* AttributeError for a descriptor that is not a mapping
ConvertFieldsRaises(tc) == ~tc.fields_ok

\* one tool_use block: lines 535-582 and 808-875.  acc holds ui_recipe, whether
\* a search note was added to the text, and whether an exception left the loop
ToolStep(path, acc, tc) ==
    IF acc.raised THEN acc
    ELSE CASE tc.name = "request_user_input" ->
                IF ConvertFieldsRaises(tc) THEN [acc EXCEPT !.raised = TRUE]
                ELSE [acc EXCEPT !.recipe = tc.component_type]
           [] tc.name = "search_api" ->
                [acc EXCEPT !.note = IF path = "sdk" THEN @ \/ tc.hits > 0 ELSE TRUE]
           [] tc.name = "request_auth" ->
                [acc EXCEPT !.recipe = AuthComponent(path, tc.provider, tc.auth_type)]
           [] OTHER -> acc

RECURSIVE ToolFold(_, _, _, _)
ToolFold(path, tools, i, acc) ==
    IF i > Len(tools) THEN acc
    ELSE ToolFold(path, tools, i + 1, ToolStep(path, acc, tools[i]))

\* the intent of a reply for which a tool call built a UIRecipeSpec
\* ToolReplyIntent that classifies the text as for a reply without recipe
ToolReplyIntent_FromText(t) == TextIntent(t)

\* lines 596-601 and 877-882
ToolReplyIntent(t) == "request_info"

\* The AgentResponse a path makes of one model reply; outcome "raised" when
\* an exception leaves the path instead.  A message of kind "default" is one
\* of the fixed texts of lines 594, 599, 880 and 889, "api_failure" the one of
\* line 896.
process_reply(path, tools, text) ==
    LET acc == ToolFold(path, tools, 1,
                        [recipe |-> NoneVal, note |-> FALSE, raised |-> FALSE])
        t1 == IF acc.note THEN WithNote(text) ELSE text
        said == IF EmptyText(t1)
                THEN [kind |-> "default", shows_block |-> FALSE]
                ELSE [kind |-> "model_text", shows_block |-> t1.block]
    IN  IF acc.raised
        THEN IF path = "sdk"
             THEN \* nothing in _process_with_sdk_client catches it
                  [outcome |-> "raised", intent |-> NoneVal,
                   message |-> [kind |-> NoneVal, shows_block |-> FALSE],
                   ui_recipe |-> NoneVal]
             ELSE \* except Exception, lines 892-897
                  [outcome |-> "reply", intent |-> "error",
                   message |-> [kind |-> "api_failure", shows_block |-> FALSE],
                   ui_recipe |-> NoneVal]
        ELSE IF acc.recipe # NoneVal
        THEN [outcome |-> "reply", intent |-> ToolReplyIntent(t1),
              message |-> said, ui_recipe |-> acc.recipe]
        ELSE IF EmptyText(t1)
        THEN [outcome |-> "reply", intent |-> "respond",
              message |-> said, ui_recipe |-> NoneVal]
        ELSE parse_agent_response(t1)

\* a reply without tool_use block is interpreted; one reply is followed per
\* behaviour
interpret_text_reply ==
    /\ pr.op = "none"
    /\ \E path \in ReplyPaths, text \in ReplyTexts :
      /\ pr' = [op |-> "process_reply", path |-> path, tools |-> <<>>,
                text |-> text, result |-> process_reply(path, <<>>, text)]
      /\ UNCHANGED <<subs, hist, orchVars, execVars, sessVars, localVars>>

\* a reply with tool_use blocks is interpreted
interpret_tool_reply ==
    /\ pr.op = "none"
    /\ \E path \in ReplyPaths, tools \in ToolSeqs, text \in ToolReplyTexts :
      /\ pr' = [op |-> "process_reply", path |-> path, tools |-> tools,
                text |-> text, result |-> process_reply(path, tools, text)]
      /\ UNCHANGED <<subs, hist, orchVars, execVars, sessVars, localVars>>

ParseNext ==
    \/ interpret_text_reply
    \/ interpret_tool_reply

SpecParse == Init /\ [][ParseNext]_vars

\* the names of the tool calls of the reply in pr
ToolNames == { pr.tools[i].name : i \in DOMAIN pr.tools }

\* every tool call of the reply is well-formed
WellFormed == \A i \in DOMAIN pr.tools : pr.tools[i].fields_ok


\* ------------------------------------------------------------------------
\* Properties of the interpretation of replies
\* ------------------------------------------------------------------------
\* the tools that build a UIRecipeSpec
RecipeTools == {"request_user_input", "request_auth"}

C35_BadToolCallDegradesToText ==
    ( /\ pr.op = "process_reply"
      /\ pr.tools # <<>>
      /\ \A i \in DOMAIN pr.tools :
            \/ pr.tools[i].name = UnknownTool
            \/ pr.tools[i].name = "request_user_input" /\ ~pr.tools[i].fields_ok
      /\ ~pr.text.block )
        => /\ pr.result.outcome = "reply"
           /\ pr.result.ui_recipe = NoneVal
           /\ pr.result.intent = TextIntent(pr.text)
           /\ ~EmptyText(pr.text) => pr.result.message.kind = "model_text"

\* C36: every component_type the interpretation of a reply puts into a
\* UIRecipeSpec is a member of UIComponentType, so that _create_ui_recipe can
\* persist it.
C36_ComponentTypesInVocabulary ==
    (pr.op = "process_reply" /\ pr.result.ui_recipe # NoneVal)
        => /\ pr.result.ui_recipe \in UIComponentType
           /\ ~CreateUiRecipeRaises([component_type |-> pr.result.ui_recipe,
                                     title |-> NoneVal])

\* C37: for one request_auth tool call the session path and the stateless
\* path build a UIRecipeSpec of the same component_type.
C37_SameAuthComponentOnBothPaths ==
    ( /\ pr.op = "process_reply"
      /\ Len(pr.tools) = 1
      /\ pr.tools[1].name = "request_auth" )
        => process_reply("sdk", pr.tools, pr.text).ui_recipe
             = process_reply("direct", pr.tools, pr.text).ui_recipe

\* C38: a reply without tool call has intent request_info when an embedded
\* UI Recipe block is found, and the block is not part of the visible
\* message; otherwise the first class with a word in the text decides:
\* completion -> complete, confirmation -> execute, error -> error,
\* question -> request_info, and respond when no class has one.
C38_TextHeuristics ==
    (pr.op = "process_reply" /\ pr.tools = <<>> /\ ~EmptyText(pr.text))
        => /\ pr.result.outcome = "reply"
           /\ IF pr.text.block
              THEN /\ pr.result.intent = "request_info"
                   /\ pr.result.ui_recipe # NoneVal
                   /\ ~pr.result.message.shows_block
              ELSE /\ pr.result.ui_recipe = NoneVal
                   /\ pr.result.intent =
                        CASE pr.text.completion -> "complete"
                          [] ~pr.text.completion /\ pr.text.confirmation -> "execute"
                          [] ~pr.text.completion /\ ~pr.text.confirmation
                               /\ pr.text.error -> "error"
                          [] ~pr.text.completion /\ ~pr.text.confirmation
                               /\ ~pr.text.error /\ pr.text.question -> "request_info"
                          [] OTHER -> "respond"


\* ========================================================================
\* Conversation history handed to the model
\* ========================================================================
\* created_at has server_default=func.now() (models/base.py:17-21): the value
\* is the database's clock at the INSERT.  Between two INSERTs the clock
\* advances by whole units or not at all: CURRENT_TIMESTAMP of SQLite counts
\* seconds, now() of PostgreSQL is the start of the transaction.
Elapsed == {0, 1}

MessageRow(role, now) == [role |-> role, created_at |-> now]

\* `ORDER BY created_at DESC`: the orders the database may return the rows
\* in; rows with equal created_at come in any order
RECURSIVE DescOrders(_, _)
DescOrders(rows, S) ==
    IF S = {} THEN { <<>> }
    ELSE LET newest == { m \in S : \A x \in S : rows[x].created_at <= rows[m].created_at }
         IN  UNION { { <<m>> \o rest : rest \in DescOrders(rows, S \ {m}) } : m \in newest }

Reversed(seq) == [i \in 1..Len(seq) |-> seq[Len(seq) + 1 - i]]

\* _get_conversation_history, lines 320-334: the first `limit` rows of the
\* descending order, reversed
get_conversation_history(order, limit) ==
    Reversed(SubSeq(order, 1, IF Len(order) < limit THEN Len(order) ELSE limit))

\* _process_with_direct_api, lines 732-752: the history turns, then the
\* current message
BuildContext(history) == history \o <<CurrentMessage>>

\* One turn: the history is read in `order`, then the rows of the turn are
\* inserted, the first one gap time units after the last INSERT and the
\* assistant's d units later.
HistoryAfter(roles, gap, d, order) ==
    LET t1 == hist.clock + gap
        t2 == t1 + d
        added == IF Len(roles) = 2
                 THEN <<MessageRow(roles[1], t1), MessageRow(roles[2], t2)>>
                 ELSE <<MessageRow(roles[1], t2)>>
    IN  [clock |-> t2,
         rows |-> hist.rows \o added,
         turns |-> hist.turns + 1,
         context |-> BuildContext(get_conversation_history(order, HistoryLimit)),
         stored |-> Len(hist.rows)]

\* process_user_message and create_task_from_message: history, user row,
\* model call, assistant row
history_user_turn ==
    /\ hist.turns < MaxHistoryTurns
    /\ \E gap \in Elapsed, d \in Elapsed,
          order \in DescOrders(hist.rows, DOMAIN hist.rows) :
         hist' = HistoryAfter(<<"user", "assistant">>, gap, d, order)
    /\ UNCHANGED <<subs, pr, orchVars, execVars, sessVars, localVars>>

\* handle_ui_recipe_submission: history, model call, assistant row
history_submission_turn ==
    /\ hist.turns < MaxHistoryTurns
    /\ \E gap \in Elapsed, d \in Elapsed,
          order \in DescOrders(hist.rows, DOMAIN hist.rows) :
         hist' = HistoryAfter(<<"assistant">>, gap, d, order)
    /\ UNCHANGED <<subs, pr, orchVars, execVars, sessVars, localVars>>

HistoryNext ==
    \/ history_user_turn
    \/ history_submission_turn

SpecHistory == Init /\ [][HistoryNext]_vars

\* the stored messages of the last context
StoredInContext ==
    { i \in DOMAIN hist.context : hist.context[i] # CurrentMessage }

\* C39: the context of a turn holds at most 10 stored messages, the most
\* recently created ones of the Agent, in the order of their creation, and
\* after them the current message, once; two stored messages never appear in
\* the opposite order of their creation, also when one turn created both.
C39_ContextInCreationOrder ==
    hist.turns > 0
        => LET ctx == hist.context
               n == Len(ctx)
           IN  /\ n >= 1
               /\ ctx[n] = CurrentMessage
               /\ StoredInContext = 1..(n - 1)
               /\ n - 1 <= HistoryLimit
               /\ { ctx[i] : i \in StoredInContext }
                    = { m \in 1..hist.stored : m > hist.stored - (n - 1) }
               /\ n - 1 < HistoryLimit => n - 1 = hist.stored
               /\ \A i, j \in StoredInContext : i < j => ctx[i] < ctx[j]


\* ------------------------------------------------------------------------
\* the highest keyword category with a keyword in the message
HighestKeyword(f) ==
    IF f.high THEN "high"
    ELSE IF f.medium THEN "medium"
    ELSE IF f.low THEN "low"
    ELSE "safe"

\* C40 as claimed: for a message that matches no BLOCKED_ACTIONS pattern,
\* analyze_message returns the highest keyword category that has a keyword
\* in the message, and safe when none has.
C40_HighestKeywordWinsUnlessBlocked ==
    (sg.op = "analyze_message" /\ ~sg.facts.blocked_pattern)
        => sg.result = HighestKeyword(sg.facts)

\* C40 as amended: for a message that matches no BLOCKED_ACTIONS pattern and
\* no sensitive-data pattern, analyze_message returns the highest keyword
\* category that has a keyword in the message (high over medium over low),
\* and safe when none has; a message with a sensitive-data pattern is blocked.
C40_HighestKeywordWins ==
    (sg.op = "analyze_message" /\ ~sg.facts.blocked_pattern)
        => IF sg.facts.sensitive
           THEN sg.result = "blocked"
           ELSE sg.result = HighestKeyword(sg.facts)

\* a message with medium and low keywords, no high keyword and no pattern
\* was classified medium
C40_Witness ==
    /\ sg.op = "analyze_message"
    /\ ~sg.facts.blocked_pattern /\ ~sg.facts.sensitive
    /\ ~sg.facts.high /\ sg.facts.medium /\ sg.facts.low
    /\ sg.result = "medium"

====
